---- MODULE Spec2Model ----
(***************************************************************************)
(* ImageSmith: the multi-instance ComfyUI client (src/src/comfy/client.py, *)
(* instance.py, load_balancer.py) and the GenerationQueue                  *)
(* (src/src/core/generation_queue.py) as asyncio state machines.           *)
(*                                                                         *)
(* One action is the code a task runs between two suspension points of the *)
(* event loop.  asyncio.Lock is modelled as the holder plus the FIFO of    *)
(* waiters: acquiring a free lock does not suspend, release hands the lock *)
(* to the first waiter.                                                    *)
(***************************************************************************)
EXTENDS Integers, Sequences, FiniteSets, TLC

\* ----- bounds ------------------------------------------------------------
NumInstances == 2
NumTasks == 2
NumPrompts == 2
MaxCalls == 3
MaxTime == 2
MaxJobs == 3
NumNodes == 2
MaxNodeStarts == 5
MaxProgress == 5
PoolSize == 3
MaxActive == 3
MaxWeight == 2
MaxPicks == 3
NumHookNames == 2
NumCallbacks == 2
MaxRegs == 3
MaxExecs == 2
MaxFrames == 2
MaxBotJobs == 2
MaxDownloads == 2
MaxForeign == 2

Instances == 1..NumInstances
Tasks == 1..NumTasks
PromptIds == 1..NumPrompts
Sweep == 0
\* the cleanup() task that close() gathers for instance i
Closer(i) == NumTasks + i
Closers == {Closer(i) : i \in Instances}
Procs == Tasks \cup {Sweep} \cup Closers
NoProc == -1
NoInst == 0
NoPrompt == 0
Nodes == 1..NumNodes
\* node_progress.get(node): no entry for the node
NoEntry == -1

\* per-instance configuration: weight (positive) and idle timeout in ticks
weight == [i \in Instances |-> i]
timeout == [i \in Instances |-> 1]

Strategies == {"ROUND_ROBIN", "RANDOM", "LEAST_BUSY"}

VARIABLES
    \* ComfyUIInstance fields
    connected, ws, session, active_generations, total_generations,
    last_used, active_prompts, lockHolder, lockWaiters,
    \* the event-stream connection object has closed (ws.closed)
    stream_closed,
    \* ComfyUIClient fields
    instances, strategy, current_instance_index, prompt_to_instance,
    \* the clock read by datetime.now()
    now,
    \* tasks: position, locals, outcome of the last call, calls started by each
    pc, tinst, titer, tprompt, ret, path, last, calls,
    \* GenerationQueue fields and its drain tasks
    queue, processing, current_task, dpc, djob, nextJob, started, finished,
    failed,
    \* one listen_for_updates call seen through its callback: the configured
    \* verbosity, the call's position, its local node_progress, and what it
    \* has received and passed on so far
    show_node_updates, lstate, node_progress, milestone_cbs, script,
    ncallbacks, nstarts, nprogress,
    \* a pool of instances handed to the selection strategies directly, and
    \* what the calls returned
    pool_connected, pool_active, pool_weight, picks,
    \* HookManager: the registered callbacks of each hook name, the callbacks
    \* that raise, and the execute_hook call in progress
    hooks, hraises, hpc, hname, hlog, hresults, hexecs,
    \* binary frames the event stream has delivered to listen_for_updates
    nframes,
    \* the bot's queued run_generation job: its position, the loop variable,
    \* whether there is an input image, the instance generate() is pinned to,
    \* the instance argument of every generate() call, the instance of every
    \* re-upload, the interruptions caught, how the job ended, jobs run
    rpc, attempt, has_image, current_instance, gen_args, uploads, ninterrupted,
    outcome, bjobs,
    \* listen_for_updates: the media downloaded last (current_image_data),
    \* the media handed to the completion callback, and what the stream
    \* delivered: 'executed' messages and messages of other prompts
    current_image_data, complete_image, ndownloads, nforeign

instVars == <<connected, ws, session, active_generations, total_generations,
              last_used, active_prompts, lockHolder, lockWaiters, stream_closed>>
clientVars == <<instances, strategy, current_instance_index, prompt_to_instance>>
taskVars == <<pc, tinst, titer, tprompt, ret, path, last, calls>>
queueVars == <<queue, processing, current_task, dpc, djob, nextJob, started,
               finished, failed>>
listenVars == <<show_node_updates, lstate, node_progress, milestone_cbs, script,
                ncallbacks, nstarts, nprogress>>
poolVars == <<pool_connected, pool_active, pool_weight, picks>>
hookVars == <<hooks, hraises, hpc, hname, hlog, hresults, hexecs>>
mediaVars == <<current_image_data, complete_image, ndownloads, nforeign>>
botVars == <<rpc, attempt, has_image, current_instance, gen_args, uploads,
             ninterrupted, outcome, bjobs>>
vars == <<instVars, clientVars, now, taskVars, queueVars, listenVars, poolVars, hookVars, nframes, botVars, mediaVars>>

\* ----- helpers -----------------------------------------------------------
RECURSIVE DropUntil(_, _)
\* the rest of a for-loop's list from the first element in the set S on
DropUntil(lst, S) ==
    IF lst = <<>> THEN <<>>
    ELSE IF Head(lst) \in S THEN lst
    ELSE DropUntil(Tail(lst), S)

RECURSIVE FilterSeq(_, _)
\* [i for i in lst if i in S]
FilterSeq(lst, S) ==
    IF lst = <<>> THEN <<>>
    ELSE IF Head(lst) \in S THEN <<Head(lst)>> \o FilterSeq(Tail(lst), S)
    ELSE FilterSeq(Tail(lst), S)

Range(s) == {s[k] : k \in 1..Len(s)}

RECURSIVE SumUpTo(_, _)
SumUpTo(f, n) == IF n = 0 THEN 0 ELSE f[n] + SumUpTo(f, n - 1)

\* API calls (generate, listen_for_updates) started so far, over all tasks
TotalCalls == SumUpTo(calls, NumTasks)

\* ----- ComfyUIInstance ---------------------------------------------------
is_timed_out(i) ==
    IF timeout[i] <= 0 THEN FALSE
    ELSE now - last_used[i] > timeout[i]

\* last_used is left as it was
mark_used_skipped(i) == last_used

\* mark_used(): self.last_used = datetime.now()
mark_used(i) == [last_used EXCEPT ![i] = now]

\* asyncio.Lock.release: wake the first waiter, which then owns the lock
Granted(label) ==
    CASE label = "gen_lock" -> "gen_locked"
      [] label = "upl_lock" -> "upl_locked"
      [] label = "cl_lock" -> "cl_locked"
      [] OTHER -> label

ReleaseHolder(i) ==
    IF lockWaiters[i] = <<>> THEN NoProc ELSE Head(lockWaiters[i])

ReleaseWaiters(i) ==
    IF lockWaiters[i] = <<>> THEN <<>> ELSE Tail(lockWaiters[i])

\* a release that hands the lock over without waking the waiter
ReleasePcNoWake(pcf, i) == pcf

ReleasePc(pcf, i) ==
    IF lockWaiters[i] = <<>> THEN pcf
    ELSE [pcf EXCEPT ![Head(lockWaiters[i])] = Granted(pcf[Head(lockWaiters[i])])]

\* a lock that anyone can take at any time
LockAlwaysFree(i) == TRUE

\* asyncio.Lock.acquire returns at once: not locked and nobody waiting
LockFree(i) == lockHolder[i] = NoProc /\ lockWaiters[i] = <<>>

\* ----- load balancing ----------------------------------------------------
\* the three strategies on a non-empty list cl of connected instances, with
\* the cursor idx, the weights w and the active_generations ag; each gives
\* the set of instances the call can return

\* the cursor advanced before it is used
RoundRobinSkipsFirst(cl, idx) == {cl[((idx + 1) % Len(cl)) + 1]}

\* connected_instances[self.current_instance_index % len(connected_instances)]
RoundRobinOf(cl, idx) == {cl[(idx % Len(cl)) + 1]}

\* random.choices(connected_instances, weights=weights, k=1)[0]
RandomOf(cl, w) == {cl[k] : k \in {j \in 1..Len(cl) : w[cl[j]] > 0}}

\* the minimum taken over active_generations alone
LeastBusyIgnoresWeight(cl, ag, w) ==
    LET isMin(k) == \A j \in 1..Len(cl) : ag[cl[j]] >= ag[cl[k]]
    IN {cl[k] : k \in {j \in 1..Len(cl) : isMin(j) /\ \A m \in 1..(j-1) : ~isMin(m)}}

\* min(connected_instances, key=lambda i: i.active_generations / i.weight):
\* the first minimum of the list
LeastBusyOf(cl, ag, w) ==
    LET less(a, b) == ag[a] * w[b] < ag[b] * w[a]
        isMin(k) == \A j \in 1..Len(cl) : ~less(cl[j], cl[k])
    IN {cl[k] : k \in {j \in 1..Len(cl) : isMin(j) /\ \A m \in 1..(j-1) : ~isMin(m)}}

_select_instance_round_robin(cl) == RoundRobinOf(cl, current_instance_index)

_select_instance_random(cl) == RandomOf(cl, weight)

_select_instance_least_busy(cl) == LeastBusyOf(cl, active_generations, weight)

StrategyPick(cl) ==
    CASE strategy = "ROUND_ROBIN" -> _select_instance_round_robin(cl)
      [] strategy = "RANDOM" -> _select_instance_random(cl)
      [] strategy = "LEAST_BUSY" -> _select_instance_least_busy(cl)

\* the filter without its is_timed_out() test
AvailableInstancesAnyConnected ==
    FilterSeq(instances, {i \in Instances : connected[i]})

\* available_instances on the normal path of _select_instance
AvailableInstances ==
    FilterSeq(instances, {i \in Instances : connected[i] /\ ~is_timed_out(i)})

\* available_instances recomputed after the reconnect loop
ReconnectedInstances(conn) ==
    FilterSeq(instances, {i \in Instances : conn[i]})

\* instances the reconnect loop calls initialize() on
NeedsReconnect(conn) ==
    {i \in Instances : ~conn[i] /\ active_prompts[i] = {}}

\* ----- outcome records ---------------------------------------------------
NoCall == [op |-> "none", ok |-> FALSE, err |-> "none", status |-> 0,
           body |-> "none", attempts |-> 0]

\* the error raised without reading the response text
GenerationRequestFailedNoText(status, body) ==
    [err |-> "request_failed", status |-> status, body |-> "none"]

\* raise Exception("Generation request failed with status {status}: {error_text}")
GenerationRequestFailed(status, body) ==
    [err |-> "request_failed", status |-> status, body |-> body]

\* the registration in the map left out
TrackMapForgotten(m, i, p) == m

\* self.prompt_to_instance[prompt_id] = instance
TrackMap(m, i, p) == [m EXCEPT ![p] = i]

\* the decrement written after the request instead of in a finally block
ActiveAfterExitOnSuccessOnly(n, ok) == IF ok THEN n - 1 ELSE n

\* the counter kept up while the submitted job runs remotely
ActiveAfterExitOnFailureOnly(n, ok) == IF ok THEN n ELSE n - 1

\* finally: instance.active_generations -= 1
ActiveAfterExit(n, ok) == n - 1

\* ----- HTTP responses to POST /prompt ------------------------------------
\* status 0 stands for a transport error raised by session.post
Response(s, b, p) == [status |-> s, body |-> b, pid |-> p]

PostResponses ==
    {Response(200, "json", p) : p \in PromptIds \cup {NoPrompt}}
    \cup {Response(s, b, NoPrompt) :
            s \in {400, 404, 500, 502, 503, 504}, b \in {"empty", "text"}}
    \cup {Response(0, "none", NoPrompt)}

\* the responses drawn where the status code makes no difference
CoreResponses ==
    {Response(200, "json", p) : p \in PromptIds \cup {NoPrompt}}
    \cup {Response(500, "text", NoPrompt), Response(0, "none", NoPrompt)}

\* ----- Init: the client after connect() returned -------------------------
\* connect() initialized every configured instance; at least one succeeded,
\* a failed one was cleaned up; the timeout checker has been created.
ClientInit ==
    /\ connected \in {c \in [Instances -> BOOLEAN] : \E i \in Instances : c[i]}
    /\ ws = connected
    /\ stream_closed = [i \in Instances |-> FALSE]
    /\ session = connected
    /\ active_generations = [i \in Instances |-> 0]
    /\ total_generations = [i \in Instances |-> 0]
    /\ last_used = [i \in Instances |-> 0]
    /\ active_prompts = [i \in Instances |-> {}]
    /\ lockHolder = [i \in Instances |-> NoProc]
    /\ lockWaiters = [i \in Instances |-> <<>>]
    /\ instances = [k \in 1..NumInstances |-> k]
    /\ strategy \in Strategies
    /\ current_instance_index = 0
    /\ prompt_to_instance = [p \in PromptIds |-> NoInst]
    /\ now = 0
    /\ pc = [p \in Procs |-> IF p = Sweep THEN "sw_sleep" ELSE "idle"]
    /\ tinst = [p \in Procs |-> NoInst]
    /\ titer = [p \in Procs |-> <<>>]
    /\ tprompt = [p \in Procs |-> NoPrompt]
    /\ ret = [p \in Procs |-> "none"]
    /\ path = [p \in Procs |-> "none"]
    /\ last = [p \in Procs |-> NoCall]
    /\ calls = [t \in Tasks |-> 0]
    /\ queue = <<>>
    /\ processing = FALSE
    /\ current_task = 0
    /\ dpc = [d \in 1..MaxJobs |-> "none"]
    /\ djob = [d \in 1..MaxJobs |-> 0]
    /\ nextJob = 1
    /\ started = <<>>
    /\ finished = {}
    /\ failed = {}
    /\ show_node_updates = TRUE
    /\ lstate = "new"
    /\ node_progress = [n \in Nodes |-> NoEntry]
    /\ milestone_cbs = [n \in Nodes |-> <<>>]
    /\ script = [n \in Nodes |-> 0]
    /\ ncallbacks = 0
    /\ nstarts = 0
    /\ nprogress = 0

\* no strategy has been called on a pool directly
PoolFresh ==
    /\ pool_connected = [i \in 1..PoolSize |-> TRUE]
    /\ pool_active = [i \in 1..PoolSize |-> 0]
    /\ pool_weight = [i \in 1..PoolSize |-> 1]
    /\ picks = <<>>

HookNames == 1..NumHookNames
Callbacks == 1..NumCallbacks
NoHook == 0

\* HookManager.__init__: self.hooks = {} (a name that is not a key has the
\* empty list here: register_hook never leaves an empty list behind)
HookFresh ==
    /\ hooks = [h \in HookNames |-> <<>>]
    /\ hraises = {}
    /\ hpc = "h_idle"
    /\ hname = NoHook
    /\ hlog = <<>>
    /\ hresults = <<>>
    /\ hexecs = 0

\* no run_generation job has been queued
BotFresh ==
    /\ rpc = "none"
    /\ attempt = 0
    /\ has_image = FALSE
    /\ current_instance = NoInst
    /\ gen_args = <<>>
    /\ uploads = <<>>
    /\ ninterrupted = 0
    /\ outcome = "none"
    /\ bjobs = 0

NoMedia == 0

\* current_image_data = None; nothing received yet
MediaFresh ==
    /\ current_image_data = NoMedia
    /\ complete_image = NoEntry
    /\ ndownloads = 0
    /\ nforeign = 0

Init == ClientInit /\ PoolFresh /\ HookFresh /\ nframes = 0 /\ BotFresh /\ MediaFresh

\* ----- time --------------------------------------------------------------
Tick ==
    /\ now < MaxTime
    /\ now' = now + 1
    /\ UNCHANGED <<instVars, clientVars, taskVars, queueVars, listenVars, poolVars, hookVars, nframes, botVars, mediaVars>>

\* ----- ComfyUIInstance.cleanup -------------------------------------------
\* the body of cleanup() once process p owns the lock of instance i, up to
\* its next suspension; r is where p continues after cleanup() returns
CleanupBody(p, i, r, wsf, conn) ==
    IF wsf[i] THEN
        /\ lockHolder' = [lockHolder EXCEPT ![i] = p]
        /\ lockWaiters' = lockWaiters
        /\ pc' = [pc EXCEPT ![p] = "cl_ws"]
        /\ connected' = conn
    ELSE IF session[i] THEN
        /\ lockHolder' = [lockHolder EXCEPT ![i] = p]
        /\ lockWaiters' = lockWaiters
        /\ pc' = [pc EXCEPT ![p] = "cl_sess"]
        /\ connected' = conn
    ELSE
        /\ lockHolder' = [lockHolder EXCEPT ![i] = ReleaseHolder(i)]
        /\ lockWaiters' = [lockWaiters EXCEPT ![i] = ReleaseWaiters(i)]
        /\ pc' = ReleasePc([pc EXCEPT ![p] = r], i)
        /\ connected' = [conn EXCEPT ![i] = FALSE]

\* await instance.cleanup(): async with self._lock
CleanupEnter(p, i, r, conn) ==
    /\ ret' = [ret EXCEPT ![p] = r]
    /\ IF LockFree(i) THEN CleanupBody(p, i, r, ws, conn)
       ELSE /\ lockWaiters' = [lockWaiters EXCEPT ![i] = Append(@, p)]
            /\ pc' = [pc EXCEPT ![p] = "cl_lock"]
            /\ lockHolder' = lockHolder
            /\ connected' = conn

\* the lock was handed to p, which was waiting in cleanup()
CleanupLocked(p) ==
    /\ pc[p] = "cl_locked"
    /\ CleanupBody(p, tinst[p], ret[p], ws, connected)
    /\ UNCHANGED <<ws, stream_closed, session, active_generations, total_generations, last_used,
                   active_prompts, clientVars, now, tinst, titer, tprompt, ret,
                   path, last, calls, queueVars, listenVars, poolVars, hookVars, nframes, botVars, mediaVars>>

\* await self.ws.close() returned (ok) or raised (~ok)
CleanupWsClosed(p, ok) ==
    /\ pc[p] = "cl_ws"
    /\ LET i == tinst[p] IN
       IF ok THEN
           /\ ws' = [ws EXCEPT ![i] = FALSE]
           /\ stream_closed' = [stream_closed EXCEPT ![i] = FALSE]
           /\ CleanupBody(p, i, ret[p], ws', connected)
       ELSE
           /\ ws' = ws
           /\ stream_closed' = stream_closed
           /\ lockHolder' = [lockHolder EXCEPT ![i] = ReleaseHolder(i)]
           /\ lockWaiters' = [lockWaiters EXCEPT ![i] = ReleaseWaiters(i)]
           /\ pc' = ReleasePc([pc EXCEPT ![p] = ret[p]], i)
           /\ connected' = connected
    /\ UNCHANGED <<session, active_generations, total_generations, last_used,
                   active_prompts, clientVars, now, tinst, titer, tprompt, ret,
                   path, last, calls, queueVars, listenVars, poolVars, hookVars, nframes, botVars, mediaVars>>

\* await self.session.close() returned (ok) or raised (~ok)
CleanupSessClosed(p, ok) ==
    /\ pc[p] = "cl_sess"
    /\ LET i == tinst[p] IN
       /\ session' = IF ok THEN [session EXCEPT ![i] = FALSE] ELSE session
       /\ connected' = IF ok THEN [connected EXCEPT ![i] = FALSE] ELSE connected
       /\ lockHolder' = [lockHolder EXCEPT ![i] = ReleaseHolder(i)]
       /\ lockWaiters' = [lockWaiters EXCEPT ![i] = ReleaseWaiters(i)]
       /\ pc' = ReleasePc([pc EXCEPT ![p] = ret[p]], i)
    /\ UNCHANGED <<ws, stream_closed, active_generations, total_generations, last_used,
                   active_prompts, clientVars, now, tinst, titer, tprompt, ret,
                   path, last, calls, queueVars, listenVars, poolVars, hookVars, nframes, botVars, mediaVars>>

\* ----- ComfyUIClient._check_timeouts -------------------------------------
\* instances the sweep cleans up
SweepCondition ==
    {i \in Instances : connected[i] /\ is_timed_out(i) /\ active_prompts[i] = {}}

\* the for-loop over the list lst up to its next suspension
SweepLoop(lst) ==
    LET rest == DropUntil(lst, SweepCondition) IN
    IF rest = <<>> THEN
        /\ pc' = [pc EXCEPT ![Sweep] = "sw_sleep"]
        /\ titer' = [titer EXCEPT ![Sweep] = <<>>]
        /\ tinst' = [tinst EXCEPT ![Sweep] = NoInst]
        /\ UNCHANGED <<lockHolder, lockWaiters, connected, ret>>
    ELSE
        /\ titer' = [titer EXCEPT ![Sweep] = rest]
        /\ tinst' = [tinst EXCEPT ![Sweep] = Head(rest)]
        /\ CleanupEnter(Sweep, Head(rest), "sw_hook", connected)

\* asyncio.sleep(timeout_check_interval) returned: next round of the loop
SweepWake ==
    /\ pc[Sweep] = "sw_sleep"
    /\ SweepLoop(instances)
    /\ UNCHANGED <<ws, stream_closed, session, active_generations, total_generations, last_used,
                   active_prompts, clientVars, now, tprompt, path, last, calls,
                   queueVars, listenVars, poolVars, hookVars, nframes, botVars, mediaVars>>

\* execute_hook('is.comfyui.client.instance.timeout', ...) returned
SweepHookDone ==
    /\ pc[Sweep] = "sw_hook"
    /\ SweepLoop(Tail(titer[Sweep]))
    /\ UNCHANGED <<ws, stream_closed, session, active_generations, total_generations, last_used,
                   active_prompts, clientVars, now, tprompt, path, last, calls,
                   queueVars, listenVars, poolVars, hookVars, nframes, botVars, mediaVars>>

\* ----- ComfyUIClient.close ------------------------------------------------
\* the lock of instance i once the cancelled timeout checker has left it:
\* CancelledError passes cleanup()'s except Exception, 'async with' releases
\* the lock it holds, a waiting acquire() is withdrawn
CancelledHolder(i) ==
    IF lockHolder[i] = Sweep THEN ReleaseHolder(i) ELSE lockHolder[i]

CancelledWaiters(i) ==
    IF lockHolder[i] = Sweep THEN ReleaseWaiters(i)
    ELSE FilterSeq(lockWaiters[i], Procs \ {Sweep})

\* close(): self.timeout_check_task.cancel(); await self.timeout_check_task
CloseStart(t) ==
    /\ pc[t] = "idle"
    /\ pc[Sweep] # "sw_cancelled"
    /\ lockHolder' = [i \in Instances |-> CancelledHolder(i)]
    /\ lockWaiters' = [i \in Instances |-> CancelledWaiters(i)]
    /\ pc' = [p \in Procs |->
                IF p = Sweep THEN "sw_cancelled"
                ELSE IF p = t THEN "close_wait"
                ELSE IF \E i \in Instances :
                           /\ lockHolder[i] = Sweep
                           /\ lockWaiters[i] # <<>>
                           /\ Head(lockWaiters[i]) = p
                     THEN Granted(pc[p])
                ELSE pc[p]]
    /\ tinst' = [tinst EXCEPT ![Sweep] = NoInst]
    /\ titer' = [titer EXCEPT ![Sweep] = <<>>]
    /\ last' = [last EXCEPT ![t] = [NoCall EXCEPT !.op = "close"]]
    /\ UNCHANGED <<connected, ws, stream_closed, session, active_generations, total_generations,
                   last_used, active_prompts, clientVars, now, tprompt, ret, path,
                   calls, queueVars, listenVars, poolVars, hookVars, nframes, botVars, mediaVars>>

\* the checker has ended: cleanup_tasks = [instance.cleanup() for instance in
\* self.instances]; await asyncio.gather(*cleanup_tasks, ...)
CloseGather(t) ==
    /\ pc[t] = "close_wait"
    /\ pc' = [p \in Procs |->
                IF p = t THEN "close_gather"
                ELSE IF \E i \in Range(instances) : p = Closer(i) THEN "cl_start"
                ELSE pc[p]]
    /\ tinst' = [p \in Procs |->
                   IF \E i \in Range(instances) : p = Closer(i) THEN p - NumTasks
                   ELSE tinst[p]]
    /\ UNCHANGED <<instVars, clientVars, now, titer, tprompt, ret, path, last, calls,
                   queueVars, listenVars, poolVars, hookVars, nframes, botVars, mediaVars>>

\* a gathered cleanup() task starts to run
CloserRun(c) ==
    /\ c \in Closers
    /\ pc[c] = "cl_start"
    /\ CleanupEnter(c, tinst[c], "cl_done", connected)
    /\ UNCHANGED <<ws, stream_closed, session, active_generations, total_generations, last_used,
                   active_prompts, clientVars, now, tinst, titer, tprompt, path,
                   last, calls, queueVars, listenVars, poolVars, hookVars, nframes,
                   botVars, mediaVars>>

\* every gathered task is done: gather() and close() return
CloseReturn(t) ==
    /\ pc[t] = "close_gather"
    /\ \A c \in Closers : pc[c] \in {"idle", "cl_done"}
    /\ pc' = [p \in Procs |-> IF p = t \/ p \in Closers THEN "idle" ELSE pc[p]]
    /\ tinst' = [p \in Procs |-> IF p \in Closers THEN NoInst ELSE tinst[p]]
    /\ last' = [last EXCEPT ![t] = [@ EXCEPT !.ok = TRUE]]
    /\ UNCHANGED <<instVars, clientVars, now, titer, tprompt, ret, path, calls,
                   queueVars, listenVars, poolVars, hookVars, nframes, botVars, mediaVars>>

\* ----- ComfyUIClient._get_instance / _select_instance --------------------
\* async with instance._lock, then the body of generate() up to session.post
AcquireForGenerate(t, i, rec) ==
    IF LockFree(i) THEN
        /\ lockHolder' = [lockHolder EXCEPT ![i] = t]
        /\ lockWaiters' = lockWaiters
        /\ active_generations' = [active_generations EXCEPT ![i] = @ + 1]
        /\ session' = [session EXCEPT ![i] = TRUE]
        /\ pc' = [pc EXCEPT ![t] = "gen_post"]
        /\ last' = [last EXCEPT ![t] = [rec EXCEPT !.attempts = 1]]
    ELSE
        /\ lockWaiters' = [lockWaiters EXCEPT ![i] = Append(@, t)]
        /\ pc' = [pc EXCEPT ![t] = "gen_lock"]
        /\ last' = [last EXCEPT ![t] = rec]
        /\ UNCHANGED <<lockHolder, active_generations, session>>

\* async with instance._lock, then the body of upload_image() up to
\* session.post
AcquireForUpload(t, i, rec) ==
    IF LockFree(i) THEN
        /\ lockHolder' = [lockHolder EXCEPT ![i] = t]
        /\ lockWaiters' = lockWaiters
        /\ session' = [session EXCEPT ![i] = TRUE]
        /\ pc' = [pc EXCEPT ![t] = "upl_post"]
        /\ last' = [last EXCEPT ![t] = [rec EXCEPT !.attempts = 1]]
        /\ UNCHANGED active_generations
    ELSE
        /\ lockWaiters' = [lockWaiters EXCEPT ![i] = Append(@, t)]
        /\ pc' = [pc EXCEPT ![t] = "upl_lock"]
        /\ last' = [last EXCEPT ![t] = rec]
        /\ UNCHANGED <<lockHolder, active_generations, session>>

\* _get_instance() returned i to the operation that called it
AcquireLock(t, i, rec) ==
    IF rec.op = "upload_image" THEN AcquireForUpload(t, i, rec)
    ELSE AcquireForGenerate(t, i, rec)

\* self.instances = available_instances; strategies[self.strategy]();
\* mark_used(); then the caller goes for the lock
Selected(t, av, conn, rec) ==
    \E i \in StrategyPick(FilterSeq(av, {j \in Instances : conn[j]})) :
        /\ instances' = av
        /\ current_instance_index' =
               IF strategy = "ROUND_ROBIN" THEN current_instance_index + 1
               ELSE current_instance_index
        /\ last_used' = mark_used(i)
        /\ tinst' = [tinst EXCEPT ![t] = i]
        /\ titer' = [titer EXCEPT ![t] = <<>>]
        /\ AcquireLock(t, i, rec)

\* the reconnect loop of _select_instance over the rest lst of the list, up
\* to the health probe of the next initialize(), or to the end of selection
ContinueReconnect(t, lst, conn, rec) ==
    LET rest == DropUntil(lst, NeedsReconnect(conn)) IN
    IF rest # <<>> THEN
        /\ session' = [session EXCEPT ![Head(rest)] = TRUE]
        /\ titer' = [titer EXCEPT ![t] = rest]
        /\ tinst' = [tinst EXCEPT ![t] = Head(rest)]
        /\ pc' = [pc EXCEPT ![t] = "init_probe"]
        /\ last' = [last EXCEPT ![t] = rec]
        /\ UNCHANGED <<instances, current_instance_index, last_used, lockHolder,
                       lockWaiters, active_generations>>
    ELSE IF ReconnectedInstances(conn) = <<>> THEN
        \* raise Exception("No available instances")
        /\ pc' = [pc EXCEPT ![t] = "idle"]
        /\ last' = [last EXCEPT ![t] = [rec EXCEPT !.err = "no_available"]]
        /\ titer' = [titer EXCEPT ![t] = <<>>]
        /\ tinst' = [tinst EXCEPT ![t] = NoInst]
        /\ UNCHANGED <<instances, current_instance_index, last_used, lockHolder,
                       lockWaiters, active_generations, session>>
    ELSE Selected(t, ReconnectedInstances(conn), conn, rec)

\* generate(workflow): from the call to its first suspension
GenerateStart(t) ==
    /\ pc[t] = "idle"
    /\ TotalCalls < MaxCalls
    /\ calls' = [calls EXCEPT ![t] = @ + 1]
    /\ IF AvailableInstances # <<>>
       THEN /\ Selected(t, AvailableInstances, connected,
                        [NoCall EXCEPT !.op = "generate"])
            /\ path' = [path EXCEPT ![t] = "normal"]
       ELSE /\ ContinueReconnect(t, instances, connected,
                                 [NoCall EXCEPT !.op = "generate"])
            /\ path' = [path EXCEPT ![t] =
                            IF pc'[t] = "idle" THEN "none" ELSE "reconnect"]
    /\ UNCHANGED <<connected, ws, stream_closed, total_generations, active_prompts, strategy,
                   prompt_to_instance, now, tprompt, ret, queueVars, listenVars, poolVars, hookVars, nframes, botVars, mediaVars>>

\* ----- ComfyUIInstance.initialize (called by the reconnect loop) ---------
\* session.get(base_url/history) answered: 200, or 401 / another status /
\* a transport error (~ok), which goes to the except branch
InitProbeDone(t, ok) ==
    /\ pc[t] = "init_probe"
    /\ IF ok THEN
           /\ pc' = [pc EXCEPT ![t] = "init_ws"]
           /\ UNCHANGED <<connected, lockHolder, lockWaiters, ret>>
       ELSE CleanupEnter(t, tinst[t], "init_raise",
                         [connected EXCEPT ![tinst[t]] = FALSE])
    /\ UNCHANGED <<ws, stream_closed, session, active_generations, total_generations, last_used,
                   active_prompts, clientVars, now, tinst, titer, tprompt, path,
                   last, calls, queueVars, listenVars, poolVars, hookVars, nframes, botVars, mediaVars>>

\* websockets.connect returned a connection (ok) or raised (~ok)
InitWsDone(t, ok) ==
    /\ pc[t] = "init_ws"
    /\ IF ok THEN
           /\ ws' = [ws EXCEPT ![tinst[t]] = TRUE]
           /\ stream_closed' = [stream_closed EXCEPT ![tinst[t]] = FALSE]
           /\ connected' = [connected EXCEPT ![tinst[t]] = TRUE]
           /\ ContinueReconnect(t, Tail(titer[t]), connected', last[t])
           /\ path' = [path EXCEPT ![t] = IF pc'[t] = "idle" THEN "none" ELSE @]
           /\ UNCHANGED ret
       ELSE
           /\ CleanupEnter(t, tinst[t], "init_raise",
                           [connected EXCEPT ![tinst[t]] = FALSE])
           /\ UNCHANGED <<ws, stream_closed, session, active_generations, last_used, instances,
                          current_instance_index, tinst, titer, path, last>>
    /\ UNCHANGED <<total_generations, active_prompts, strategy, prompt_to_instance,
                   now, tprompt, calls, queueVars, listenVars, poolVars, hookVars, nframes, botVars, mediaVars>>

\* cleanup() returned inside initialize()'s except branch: the connection
\* error leaves initialize(), _select_instance and generate()
InitRaise(t) ==
    /\ pc[t] = "init_raise"
    /\ pc' = [pc EXCEPT ![t] = "idle"]
    /\ last' = [last EXCEPT ![t] = [@ EXCEPT !.err = "connect_failed"]]
    /\ titer' = [titer EXCEPT ![t] = <<>>]
    /\ tinst' = [tinst EXCEPT ![t] = NoInst]
    /\ ret' = [ret EXCEPT ![t] = "none"]
    /\ path' = [path EXCEPT ![t] = "none"]
    /\ UNCHANGED <<instVars, clientVars, now, tprompt, calls, queueVars, listenVars, poolVars, hookVars, nframes, botVars, mediaVars>>

\* ----- ComfyUIClient.generate --------------------------------------------
\* the lock was handed to t, which was waiting in generate()
GenerateLocked(t) ==
    /\ pc[t] = "gen_locked"
    /\ active_generations' = [active_generations EXCEPT ![tinst[t]] = @ + 1]
    /\ session' = [session EXCEPT ![tinst[t]] = TRUE]
    /\ pc' = [pc EXCEPT ![t] = "gen_post"]
    /\ last' = [last EXCEPT ![t] = [@ EXCEPT !.attempts = 1]]
    /\ UNCHANGED <<connected, ws, stream_closed, total_generations, last_used, active_prompts,
                   lockHolder, lockWaiters, clientVars, now, tinst, titer,
                   tprompt, ret, path, calls, queueVars, listenVars, poolVars, hookVars, nframes, botVars, mediaVars>>

\* session.post answered with resp: the rest of generate()
GeneratePostDone(t, resp) ==
    /\ pc[t] = "gen_post"
    /\ LET i == tinst[t]
           ok == resp.status = 200
       IN
       /\ IF ok THEN
              /\ active_prompts' =
                     IF resp.pid # NoPrompt
                     THEN [active_prompts EXCEPT ![i] = @ \cup {resp.pid}]
                     ELSE active_prompts
              /\ prompt_to_instance' =
                     IF resp.pid # NoPrompt
                     THEN TrackMap(prompt_to_instance, i, resp.pid)
                     ELSE prompt_to_instance
              /\ total_generations' = [total_generations EXCEPT ![i] = @ + 1]
              /\ last' = [last EXCEPT ![t] = [@ EXCEPT !.ok = TRUE, !.status = 200]]
          ELSE
              /\ UNCHANGED <<active_prompts, prompt_to_instance, total_generations>>
              /\ last' = [last EXCEPT ![t] =
                     IF resp.status = 0
                     THEN [@ EXCEPT !.err = "transport"]
                     ELSE [@ EXCEPT
                            !.err = GenerationRequestFailed(resp.status, resp.body).err,
                            !.status = GenerationRequestFailed(resp.status, resp.body).status,
                            !.body = GenerationRequestFailed(resp.status, resp.body).body]]
       /\ active_generations' =
              [active_generations EXCEPT ![i] = ActiveAfterExit(@, ok)]
       /\ lockHolder' = [lockHolder EXCEPT ![i] = ReleaseHolder(i)]
       /\ lockWaiters' = [lockWaiters EXCEPT ![i] = ReleaseWaiters(i)]
       /\ pc' = ReleasePc([pc EXCEPT ![t] = "idle"], i)
    /\ tinst' = [tinst EXCEPT ![t] = NoInst]
    /\ path' = [path EXCEPT ![t] = "none"]
    /\ UNCHANGED <<connected, ws, stream_closed, session, last_used, instances, strategy,
                   current_instance_index, now, titer, tprompt, ret,
                   calls, queueVars, listenVars, poolVars, hookVars, nframes, botVars, mediaVars>>


\* ----- ComfyUIClient.upload_image ----------------------------------------
\* raise Exception("Image upload failed with status {status}: {error_text}")
ImageUploadFailed(status, body) ==
    [err |-> "upload_failed", status |-> status, body |-> body]

\* mark_used() written after the request instead of in a finally block
UploadExitMarksOnSuccess(i, ok) == IF ok THEN mark_used(i) ELSE last_used

\* finally: await instance.mark_used()
UploadExitLastUsed(i, ok) == mark_used(i)

\* upload_image(image_data): from the call to its first suspension
UploadStart(t) ==
    /\ pc[t] = "idle"
    /\ TotalCalls < MaxCalls
    /\ calls' = [calls EXCEPT ![t] = @ + 1]
    /\ IF AvailableInstances # <<>>
       THEN /\ Selected(t, AvailableInstances, connected,
                        [NoCall EXCEPT !.op = "upload_image"])
            /\ path' = [path EXCEPT ![t] = "normal"]
       ELSE /\ ContinueReconnect(t, instances, connected,
                                 [NoCall EXCEPT !.op = "upload_image"])
            /\ path' = [path EXCEPT ![t] =
                            IF pc'[t] = "idle" THEN "none" ELSE "reconnect"]
    /\ UNCHANGED <<connected, ws, stream_closed, total_generations, active_prompts, strategy,
                   prompt_to_instance, now, tprompt, ret, queueVars, listenVars,
                   poolVars, hookVars, nframes, botVars, mediaVars>>

\* the lock was handed to t, which was waiting in upload_image()
UploadLocked(t) ==
    /\ pc[t] = "upl_locked"
    /\ session' = [session EXCEPT ![tinst[t]] = TRUE]
    /\ pc' = [pc EXCEPT ![t] = "upl_post"]
    /\ last' = [last EXCEPT ![t] = [@ EXCEPT !.attempts = 1]]
    /\ UNCHANGED <<connected, ws, stream_closed, active_generations, total_generations, last_used,
                   active_prompts, lockHolder, lockWaiters, clientVars, now, tinst,
                   titer, tprompt, ret, path, calls, queueVars, listenVars,
                   poolVars, hookVars, nframes, botVars, mediaVars>>

\* session.post answered with resp: the rest of upload_image(), its finally
\* block and the release of the lock
UploadPostDone(t, resp) ==
    /\ pc[t] = "upl_post"
    /\ LET i == tinst[t]
           ok == resp.status = 200
       IN
       /\ last' = [last EXCEPT ![t] =
              IF ok THEN [@ EXCEPT !.ok = TRUE, !.status = 200]
              ELSE IF resp.status = 0 THEN [@ EXCEPT !.err = "transport"]
              ELSE [@ EXCEPT
                     !.err = ImageUploadFailed(resp.status, resp.body).err,
                     !.status = ImageUploadFailed(resp.status, resp.body).status,
                     !.body = ImageUploadFailed(resp.status, resp.body).body]]
       /\ last_used' = UploadExitLastUsed(i, ok)
       /\ lockHolder' = [lockHolder EXCEPT ![i] = ReleaseHolder(i)]
       /\ lockWaiters' = [lockWaiters EXCEPT ![i] = ReleaseWaiters(i)]
       /\ pc' = ReleasePc([pc EXCEPT ![t] = "idle"], i)
    /\ tinst' = [tinst EXCEPT ![t] = NoInst]
    /\ path' = [path EXCEPT ![t] = "none"]
    /\ UNCHANGED <<connected, ws, stream_closed, session, active_generations, total_generations,
                   active_prompts, clientVars, now, titer, tprompt, ret, calls,
                   queueVars, listenVars, poolVars, hookVars, nframes, botVars, mediaVars>>

\* ----- ComfyUIClient.listen_for_updates ----------------------------------
\* what instance.ws.recv() can deliver to a listener: a frame it skips
\* (another prompt's message, undecodable JSON, progress below the next
\* milestone), a progress milestone, a node start, the completion signal,
\* an 'executed' output with an image, an 'error' event, a closed stream.
\* A progress message that crosses several milestones makes one callback per
\* milestone; "progress" stands for each of them.
ListenEvents ==
    {"skip", "progress", "executing", "complete", "executed", "error", "closed"}

\* the removal from active_prompts left out
UntrackActiveForgotten(ap, i, p) == ap

\* the pair of removals on a terminal event and in the finally block
UntrackActive(ap, i, p) == [ap EXCEPT ![i] = @ \ {p}]

\* the del of the map entry left out
UntrackMapForgotten(m, i, p) == m

UntrackMap(m, i, p) == [m EXCEPT ![p] = NoInst]

\* the status text a listener suspended at a callback label passes to
\* message_callback: an update (progress milestone, node start, new image),
\* the completion status, the generic error status, str(e) of the exception
\* raised after an 'error' event ("ComfyUI Error: " and the engine's text),
\* str(e) of another exception, the closed-connection status
CallbackStatus(label) ==
    CASE label = "ls_cb" -> "update"
      [] label = "ls_cb_done" -> "complete"
      [] label = "ls_cb_err" -> "generic_error"
      [] label = "ls_cb_raw" -> "engine_error_text"
      [] label = "ls_cb_exc" -> "exception_text"
      [] label = "ls_cb_closed" -> "connection_closed"
      [] OTHER -> "none"

\* the exception that leaves listen_for_updates from an except branch whose
\* callback returned (ok) or raised (~ok): the bare raise re-raises what was
\* caught, websockets.ConnectionClosed or the Exception
ListenFailure(label, ok) ==
    IF label = "ls_cb_closed" /\ ok THEN "ConnectionClosed" ELSE "Exception"

\* back at the top of the while loop: message = await instance.ws.recv();
\* an absent stream raises, which the except Exception branch reports
AwaitRecv(t, i) ==
    pc' = [pc EXCEPT ![t] = IF ws[i] THEN "ls_recv" ELSE "ls_cb_exc"]

\* listen_for_updates left by return (err = "none") or by an exception
ListenExit(t, err) ==
    /\ pc' = [pc EXCEPT ![t] = "idle"]
    /\ last' = [last EXCEPT ![t] = [@ EXCEPT !.ok = (err = "none"), !.err = err]]
    /\ tinst' = [tinst EXCEPT ![t] = NoInst]
    /\ tprompt' = [tprompt EXCEPT ![t] = NoPrompt]

\* listen_for_updates(p, callback): the precondition and the first recv()
ListenStart(t, p) ==
    /\ pc[t] = "idle"
    /\ TotalCalls < MaxCalls
    /\ calls' = [calls EXCEPT ![t] = @ + 1]
    /\ LET i == prompt_to_instance[p] IN
       IF i = NoInst \/ ~connected[i] THEN
           \* raise Exception("No connected instance found for prompt ...")
           /\ last' = [last EXCEPT ![t] = [NoCall EXCEPT !.op = "listen",
                                                        !.err = "no_instance"]]
           /\ UNCHANGED <<pc, tinst, tprompt>>
       ELSE
           /\ last' = [last EXCEPT ![t] = [NoCall EXCEPT !.op = "listen"]]
           /\ tinst' = [tinst EXCEPT ![t] = i]
           /\ tprompt' = [tprompt EXCEPT ![t] = p]
           /\ AwaitRecv(t, i)
    /\ UNCHANGED <<instVars, clientVars, now, titer, ret, path, queueVars, listenVars, poolVars, hookVars, nframes, botVars, mediaVars>>

\* what recv() raising ConnectionClosed leaves of the instance: the handler
\* reports and re-raises; nothing marks the instance or replaces instance.ws
StreamAfterClose(closed, m) == closed \/ m = "closed"

\* one message from the stream, handled up to the next suspension; a closed
\* connection raises ConnectionClosed on every later recv()
ListenRecv(t, m) ==
    /\ pc[t] = "ls_recv"
    /\ LET i == tinst[t]
           p == tprompt[t]
       IN
       /\ stream_closed[i] => m = "closed"
       /\ stream_closed' = [stream_closed EXCEPT ![i] = StreamAfterClose(@, m)]
       /\ CASE m = "skip" -> AwaitRecv(t, i)
            [] m \in {"progress", "executing"} -> pc' = [pc EXCEPT ![t] = "ls_cb"]
            [] m = "complete" -> pc' = [pc EXCEPT ![t] = "ls_cb_done"]
            [] m = "executed" ->
                   pc' = [pc EXCEPT ![t] = IF session[i] THEN "ls_dl" ELSE "ls_cb_exc"]
            [] m = "error" -> pc' = [pc EXCEPT ![t] = "ls_cb_err"]
            [] m = "closed" -> pc' = [pc EXCEPT ![t] = "ls_cb_closed"]
       /\ IF m \in {"complete", "error"} THEN
              /\ active_prompts' = UntrackActive(active_prompts, i, p)
              /\ prompt_to_instance' = UntrackMap(prompt_to_instance, i, p)
          ELSE UNCHANGED <<active_prompts, prompt_to_instance>>
    /\ UNCHANGED <<connected, ws, session, active_generations, total_generations,
                   last_used, lockHolder, lockWaiters, instances, strategy,
                   current_instance_index, now, tinst, titer, tprompt, ret, path,
                   last, calls, queueVars, listenVars, poolVars, hookVars, nframes, botVars, mediaVars>>

\* instance.session.get(image_url) answered 200 ("ok"), another status
\* ("status"), or raised ("transport")
ListenDownloadDone(t, r) ==
    /\ pc[t] = "ls_dl"
    /\ CASE r = "ok" -> pc' = [pc EXCEPT ![t] = "ls_cb"]
         [] r = "status" -> AwaitRecv(t, tinst[t])
         [] r = "transport" -> pc' = [pc EXCEPT ![t] = "ls_cb_exc"]
    /\ UNCHANGED <<instVars, clientVars, now, tinst, titer, tprompt, ret, path,
                   last, calls, queueVars, listenVars, poolVars, hookVars, nframes, botVars, mediaVars>>

\* await message_callback(...) returned (ok) or raised (~ok)
ListenCallbackDone(t, ok) ==
    /\ CallbackStatus(pc[t]) # "none"
    /\ LET i == tinst[t]
           p == tprompt[t]
       IN
       CASE pc[t] = "ls_cb" /\ ok ->
                /\ AwaitRecv(t, i)
                /\ UNCHANGED <<active_prompts, prompt_to_instance, last, tinst, tprompt>>
         [] pc[t] = "ls_cb_done" /\ ok ->
                \* the while loop ends; finally; return
                /\ active_prompts' = UntrackActive(active_prompts, i, p)
                /\ prompt_to_instance' = UntrackMap(prompt_to_instance, i, p)
                /\ ListenExit(t, "none")
         [] pc[t] = "ls_cb_err" /\ ok ->
                \* raise Exception(f"ComfyUI Error: {error_msg}") inside the
                \* inner try: except Exception reports str(e) to the callback
                /\ pc' = [pc EXCEPT ![t] = "ls_cb_raw"]
                /\ UNCHANGED <<active_prompts, prompt_to_instance, last, tinst, tprompt>>
         [] pc[t] \in {"ls_cb", "ls_cb_done", "ls_cb_err"} /\ ~ok ->
                \* the callback's exception reaches except Exception: report
                \* and re-raise
                /\ pc' = [pc EXCEPT ![t] = "ls_cb_exc"]
                /\ UNCHANGED <<active_prompts, prompt_to_instance, last, tinst, tprompt>>
         [] pc[t] \in {"ls_cb_exc", "ls_cb_raw", "ls_cb_closed"} ->
                \* raise; finally
                /\ active_prompts' = UntrackActive(active_prompts, i, p)
                /\ prompt_to_instance' = UntrackMap(prompt_to_instance, i, p)
                /\ ListenExit(t, ListenFailure(pc[t], ok))
    /\ UNCHANGED <<connected, ws, stream_closed, session, active_generations, total_generations,
                   last_used, lockHolder, lockWaiters, instances, strategy,
                   current_instance_index, now, titer, ret, path, calls, queueVars, listenVars, poolVars, hookVars, nframes, botVars, mediaVars>>


\* ----- listen_for_updates: progress milestones and node updates ----------
\* milestones = [25, 50, 75, 100]
Milestones == <<25, 50, 75, 100>>

\* the (value, max) pairs of the progress messages drawn; max = 0 makes the
\* division raise
ProgressInputs ==
    {<<v, 100>> : v \in {10, 25, 26, 50, 51, 100}} \cup {<<1, 4>>, <<3, 4>>, <<0, 0>>}

\* node_progress.get(node, {}).get('last_milestone', 0)
LastMilestone(np, n) == IF np[n] = NoEntry THEN 0 ELSE np[n]

\* progress_percentage >= m, with progress_percentage = (value / max) * 100
ProgressAtLeast(value, max, m) == value * 100 >= m * max

\* the whole percents of value / max, for values that are whole percents
Percent(value, max) == (value * 100) \div max

\* a node that reached 100 and reports less again starts over
ResetOnRestart(np, n, value, max) ==
    IF np[n] = 100 /\ ~ProgressAtLeast(value, max, 100)
    THEN [np EXCEPT ![n] = 0]
    ELSE np

RECURSIVE MilestoneLoopRepeats(_, _, _, _)
\* the loop with >= in place of > against the last milestone
MilestoneLoopRepeats(ms, lastm, value, max) ==
    IF ms = <<>> THEN <<>>
    ELSE IF ProgressAtLeast(value, max, Head(ms)) /\ Head(ms) >= lastm
         THEN <<Head(ms)>> \o MilestoneLoopRepeats(Tail(ms), Head(ms), value, max)
         ELSE MilestoneLoopRepeats(Tail(ms), lastm, value, max)

RECURSIVE MilestoneLoop(_, _, _, _)
\* for milestone in milestones: if progress_percentage >= milestone >
\* last_milestone: record it and call back; the milestones called back
MilestoneLoop(ms, lastm, value, max) ==
    IF ms = <<>> THEN <<>>
    ELSE IF ProgressAtLeast(value, max, Head(ms)) /\ Head(ms) > lastm
         THEN <<Head(ms)>> \o MilestoneLoop(Tail(ms), Head(ms), value, max)
         ELSE MilestoneLoop(Tail(ms), lastm, value, max)

\* the percents 25, 26, 50, 51, 100 reported in this order for one node
Script == <<25, 26, 50, 51, 100>>
OffScript == Len(Script) + 1

\* how far the progress percents a node reported since its tracker was last
\* reset follow Script
ScriptStep(pos, pct) ==
    IF pos < Len(Script) /\ pct = Script[pos + 1] THEN pos + 1 ELSE OffScript

\* a callback that raised is followed by the report of the except Exception
\* branch, which is one more callback, and the call ends
CallbacksMade(n, raised) == IF raised THEN n + 1 ELSE n

\* the client is constructed with the configured verbosity and
\* listen_for_updates is called
ListenConfigured(b) ==
    /\ lstate = "new"
    /\ show_node_updates' = b
    /\ lstate' = "listening"
    /\ UNCHANGED <<node_progress, milestone_cbs, script, ncallbacks, nstarts, nprogress>>
    /\ UNCHANGED <<instVars, clientVars, now, taskVars, queueVars, poolVars, hookVars, nframes, botVars, mediaVars>>

\* a 'progress' message for node n; the k-th callback it makes raises
\* (k = 0: every callback returns)
ProgressMsg(n, value, max, k) ==
    /\ lstate = "listening"
    /\ nprogress < MaxProgress
    /\ nprogress' = nprogress + 1
    /\ IF max = 0 THEN
           \* ZeroDivisionError: except Exception reports it and re-raises
           /\ k = 0
           /\ ncallbacks' = ncallbacks + 1
           /\ lstate' = "failed"
           /\ UNCHANGED <<node_progress, milestone_cbs, script>>
       ELSE
           LET np1 == ResetOnRestart(node_progress, n, value, max)
               reset == np1 # node_progress
               fired == MilestoneLoop(Milestones, LastMilestone(np1, n), value, max)
               made == IF k = 0 THEN fired ELSE SubSeq(fired, 1, k)
           IN
           /\ k <= Len(fired)
           /\ node_progress' =
                  IF made = <<>> THEN np1 ELSE [np1 EXCEPT ![n] = made[Len(made)]]
           /\ milestone_cbs' =
                  [milestone_cbs EXCEPT ![n] = (IF reset THEN <<>> ELSE @) \o made]
           /\ script' =
                  [script EXCEPT ![n] =
                      ScriptStep(IF reset THEN 0 ELSE @, Percent(value, max))]
           /\ ncallbacks' = CallbacksMade(ncallbacks + Len(made), k > 0)
           /\ lstate' = IF k > 0 THEN "failed" ELSE lstate
    /\ UNCHANGED <<show_node_updates, nstarts>>
    /\ UNCHANGED <<instVars, clientVars, now, taskVars, queueVars, poolVars, hookVars, nframes, botVars, mediaVars>>

\* an 'executing' message that names node n: the node's entry is deleted
\* and the callback is told; the callback returns (ok) or raises (~ok)
ExecutingMsg(n, ok) ==
    /\ lstate = "listening"
    /\ nstarts < MaxNodeStarts
    /\ nstarts' = nstarts + 1
    /\ node_progress' = [node_progress EXCEPT ![n] = NoEntry]
    /\ milestone_cbs' = [milestone_cbs EXCEPT ![n] = <<>>]
    /\ script' = [script EXCEPT ![n] = 0]
    /\ ncallbacks' = CallbacksMade(ncallbacks + 1, ~ok)
    /\ lstate' = IF ok THEN lstate ELSE "failed"
    /\ UNCHANGED <<show_node_updates, nprogress>>
    /\ UNCHANGED <<instVars, clientVars, now, taskVars, queueVars, poolVars, hookVars, nframes, botVars, mediaVars>>

\* the prompt listen_for_updates was called for
ListenedPrompt == 1

\* every message is taken for the listened prompt's
ForAnyPrompt(mp, p) == TRUE

\* if msg_data.get('prompt_id') != prompt_id: continue
ForThisPrompt(mp, p) == mp = p

\* the completion callback always without a file
CompleteMediaDropped(cur) == NoMedia

\* image_file = discord.File(io.BytesIO(current_image_data), ...) if
\* current_image_data else None
CompleteMedia(cur) == cur

\* the 'executing' message with node null: the completion callback, then
\* the loop ends
CompleteMsg(ok) ==
    /\ lstate = "listening"
    /\ complete_image' = CompleteMedia(current_image_data)
    /\ ncallbacks' = CallbacksMade(ncallbacks + 1, ~ok)
    /\ lstate' = IF ok THEN "done" ELSE "failed"
    /\ UNCHANGED <<show_node_updates, node_progress, milestone_cbs, script,
                   nstarts, nprogress>>
    /\ UNCHANGED <<current_image_data, ndownloads, nforeign>>
    /\ UNCHANGED <<instVars, clientVars, now, taskVars, queueVars, poolVars, hookVars, nframes, botVars>>

\* an 'executed' message with an image: the download answers 200 ("ok"),
\* another status ("status") or raises ("transport"); after a 200 the
\* callback gets the new image and returns (ok) or raises
ExecutedMsg(r, ok) ==
    /\ lstate = "listening"
    /\ ndownloads < MaxDownloads
    /\ ndownloads' = ndownloads + 1
    /\ CASE r = "ok" ->
               /\ current_image_data' = ndownloads + 1
               /\ ncallbacks' = CallbacksMade(ncallbacks + 1, ~ok)
               /\ lstate' = IF ok THEN lstate ELSE "failed"
         [] r = "status" ->
               /\ ok
               /\ UNCHANGED <<current_image_data, ncallbacks, lstate>>
         [] r = "transport" ->
               \* the exception of session.get reaches except Exception:
               \* the callback is told and the exception re-raised
               /\ ok
               /\ ncallbacks' = ncallbacks + 1
               /\ lstate' = "failed"
               /\ UNCHANGED current_image_data
    /\ UNCHANGED <<show_node_updates, node_progress, milestone_cbs, script,
                   nstarts, nprogress, complete_image, nforeign>>
    /\ UNCHANGED <<instVars, clientVars, now, taskVars, queueVars, poolVars, hookVars, nframes, botVars>>

\* a message whose data.prompt_id is mp, another prompt's: the loop
\* continues; were it let through, it would be handled as a node start,
\* whose callback returns (ok) or raises
ForeignMsg(mp, ok) ==
    /\ lstate = "listening"
    /\ mp # ListenedPrompt
    /\ nforeign < MaxForeign
    /\ nforeign' = nforeign + 1
    /\ IF ForThisPrompt(mp, ListenedPrompt) THEN
           /\ ncallbacks' = CallbacksMade(ncallbacks + 1, ~ok)
           /\ lstate' = IF ok THEN lstate ELSE "failed"
       ELSE
           /\ ok
           /\ UNCHANGED <<ncallbacks, lstate>>
    /\ UNCHANGED <<show_node_updates, node_progress, milestone_cbs, script,
                   nstarts, nprogress, current_image_data, complete_image, ndownloads>>
    /\ UNCHANGED <<instVars, clientVars, now, taskVars, queueVars, poolVars, hookVars, nframes, botVars>>

\* ----- binary frames on the event stream ---------------------------------
\* a binary frame: its length in bytes against the 8-byte header, and what
\* follows the header
HeaderLen == 8

Frames ==
    {[size |-> n, payload |-> "none"] : n \in {0, 4, HeaderLen}}
    \cup {[size |-> HeaderLen + 1, payload |-> x] : x \in {"image", "corrupt"}}

\* json.loads(message) on bytes: up to 8 bytes (no bytes, NULs, the header
\* alone) decode to text that is no JSON document, JSONDecodeError; a
\* header followed by image or other bytes is not valid UTF-32,
\* UnicodeDecodeError
JsonLoadsBytes(f) ==
    IF f.size <= HeaderLen THEN "JSONDecodeError" ELSE "UnicodeDecodeError"

\* recv() returns the binary frame f: json.loads raises; except
\* json.JSONDecodeError continues the loop, anything else goes to except
\* Exception, which calls the callback with the error text and re-raises
BinaryFrameMsg(f) ==
    /\ lstate = "listening"
    /\ nframes < MaxFrames
    /\ nframes' = nframes + 1
    /\ IF JsonLoadsBytes(f) = "JSONDecodeError" THEN
           UNCHANGED <<ncallbacks, lstate>>
       ELSE
           /\ ncallbacks' = ncallbacks + 1
           /\ lstate' = "failed"
    /\ UNCHANGED <<show_node_updates, node_progress, milestone_cbs, script,
                   nstarts, nprogress>>
    /\ UNCHANGED <<instVars, clientVars, now, taskVars, queueVars, poolVars, hookVars, botVars, mediaVars>>

ProgressInit ==
    /\ Init
    /\ strategy = "LEAST_BUSY"
    /\ \A i \in Instances : connected[i]

ProgressNext ==
    \/ \E b \in BOOLEAN : ListenConfigured(b)
    \/ \E n \in Nodes, inp \in ProgressInputs, k \in 0..Len(Milestones) :
           ProgressMsg(n, inp[1], inp[2], k)
    \/ \E n \in Nodes, ok \in BOOLEAN : ExecutingMsg(n, ok)
    \/ \E ok \in BOOLEAN : CompleteMsg(ok)

ProgressSpec == ProgressInit /\ [][ProgressNext]_vars

\* the same stream with binary frames between the messages
PreviewNext ==
    \/ ProgressNext
    \/ \E f \in Frames : BinaryFrameMsg(f)

PreviewSpec == ProgressInit /\ [][PreviewNext]_vars

\* one node's progress and starts, downloads, the completion, and messages
\* of other prompts on the same stream
MediaNext ==
    \/ \E b \in BOOLEAN : ListenConfigured(b)
    \/ \E inp \in {<<50, 100>>, <<100, 100>>}, k \in 0..1 :
           ProgressMsg(1, inp[1], inp[2], k)
    \/ \E ok \in BOOLEAN : ExecutingMsg(1, ok)
    \/ \E ok \in BOOLEAN : CompleteMsg(ok)
    \/ \E r \in {"ok", "status", "transport"}, ok \in BOOLEAN : ExecutedMsg(r, ok)
    \/ \E mp \in PromptIds, ok \in BOOLEAN : ForeignMsg(mp, ok)

MediaSpec == ProgressInit /\ [][MediaNext]_vars

\* ----- the selection strategies called on a pool --------------------------
Pool == 1..PoolSize

\* the pool's instances in list order, and those of them that are connected
PoolList == [k \in 1..PoolSize |-> k]

ConnectedPool == FilterSeq(PoolList, {i \in Pool : pool_connected[i]})

\* strategies[self.strategy]() on the pool
PoolStrategyPick(cl) ==
    CASE strategy = "ROUND_ROBIN" -> RoundRobinOf(cl, current_instance_index)
      [] strategy = "RANDOM" -> RandomOf(cl, pool_weight)
      [] strategy = "LEAST_BUSY" -> LeastBusyOf(cl, pool_active, pool_weight)

\* one call of the configured strategy: it raises 'No connected instances
\* available' (recorded as NoInst) or returns an instance; round robin
\* advances the cursor when it returns
BalancerPick ==
    /\ Len(picks) < MaxPicks
    /\ IF ConnectedPool = <<>> THEN
           /\ picks' = Append(picks, NoInst)
           /\ UNCHANGED current_instance_index
       ELSE
           \E i \in PoolStrategyPick(ConnectedPool) :
               /\ picks' = Append(picks, i)
               /\ current_instance_index' =
                      IF strategy = "ROUND_ROBIN" THEN current_instance_index + 1
                      ELSE current_instance_index
    /\ UNCHANGED <<pool_connected, pool_active, pool_weight>>
    /\ UNCHANGED <<instVars, instances, strategy, prompt_to_instance, now, taskVars,
                   queueVars, listenVars, hookVars, nframes, botVars, mediaVars>>

\* a balancer built over any pool: connection flags, loads and weights
BalancerInit ==
    /\ ClientInit
    /\ \A i \in Instances : connected[i]
    /\ HookFresh
    /\ nframes = 0
    /\ BotFresh
    /\ MediaFresh
    /\ pool_connected \in [Pool -> BOOLEAN]
    /\ pool_active \in [Pool -> 0..MaxActive]
    /\ pool_weight \in [Pool -> 1..MaxWeight]
    /\ picks = <<>>

BalancerNext == BalancerPick

BalancerSpec == BalancerInit /\ [][BalancerNext]_vars

\* ----- HookManager -------------------------------------------------------
\* the callback's exception is swallowed
CallbackErrorSwallowed(cb) == FALSE

\* result = await callback(*args, **kwargs): whether the callback raises
CallbackRaises(cb) == cb \in hraises

\* the value a callback returns: each callback returns its own
CallbackResult(cb) == cb

\* the result put in front of the list
ResultsPrepend(results, r) == <<r>> \o results

\* results.append(result)
ResultsAppend(results, r) == Append(results, r)

TotalRegs == SumUpTo([h \in HookNames |-> Len(hooks[h])], NumHookNames)

\* register_hook(hook_name, callback); it can run while a callback of an
\* execute_hook call is suspended
RegisterHook(h, cb) ==
    /\ TotalRegs < MaxRegs
    /\ hooks' = [hooks EXCEPT ![h] = Append(@, cb)]
    /\ UNCHANGED <<hraises, hpc, hname, hlog, hresults, hexecs>>
    /\ UNCHANGED <<instVars, clientVars, now, taskVars, queueVars, listenVars, poolVars, nframes, botVars, mediaVars>>

\* execute_hook(hook_name) up to its first suspension: a name without
\* callbacks returns [] at once, otherwise the first callback is invoked
ExecuteHookStart(h) ==
    /\ hpc \in {"h_idle", "h_returned", "h_raised"}
    /\ hexecs < MaxExecs
    /\ hexecs' = hexecs + 1
    /\ hname' = h
    /\ hresults' = <<>>
    /\ IF hooks[h] = <<>> THEN
           /\ hlog' = <<>>
           /\ hpc' = "h_returned"
       ELSE
           /\ hlog' = <<hooks[h][1]>>
           /\ hpc' = "h_cb"
    /\ UNCHANGED <<hooks, hraises>>
    /\ UNCHANGED <<instVars, clientVars, now, taskVars, queueVars, listenVars, poolVars, nframes, botVars, mediaVars>>

\* the awaited callback finishes: its exception leaves execute_hook, its
\* result is appended and the loop invokes the next callback of the list
\* or returns the results
HookCallbackDone ==
    /\ hpc = "h_cb"
    /\ LET cb == hlog[Len(hlog)] IN
       IF CallbackRaises(cb) THEN
           /\ hpc' = "h_raised"
           /\ hresults' = <<>>
           /\ UNCHANGED hlog
       ELSE
           /\ hresults' = ResultsAppend(hresults, CallbackResult(cb))
           /\ IF Len(hlog) < Len(hooks[hname]) THEN
                  /\ hlog' = Append(hlog, hooks[hname][Len(hlog) + 1])
                  /\ hpc' = "h_cb"
              ELSE
                  /\ hpc' = "h_returned"
                  /\ UNCHANGED hlog
    /\ UNCHANGED <<hooks, hraises, hname, hexecs>>
    /\ UNCHANGED <<instVars, clientVars, now, taskVars, queueVars, listenVars, poolVars, nframes, botVars, mediaVars>>

\* a hook manager and callbacks of which any may raise
HookInit ==
    /\ ClientInit
    /\ \A i \in Instances : connected[i]
    /\ strategy = "LEAST_BUSY"
    /\ PoolFresh
    /\ hooks = [h \in HookNames |-> <<>>]
    /\ hraises \in SUBSET Callbacks
    /\ hpc = "h_idle"
    /\ hname = NoHook
    /\ hlog = <<>>
    /\ hresults = <<>>
    /\ hexecs = 0
    /\ nframes = 0
    /\ BotFresh
    /\ MediaFresh

HookNext ==
    \/ \E h \in HookNames, cb \in Callbacks : RegisterHook(h, cb)
    \/ \E h \in HookNames : ExecuteHookStart(h)
    \/ HookCallbackDone

HookSpec == HookInit /\ [][HookNext]_vars

\* ----- ComfyUIBot.handle_generation.run_generation ------------------------
max_retries == 1

\* the retry loop never gives up
RetriesUnlimited(a) == FALSE

\* if attempt >= max_retries: raise Exception("Generation failed after
\* instance interruption ...")
RetriesExhausted(a) == a >= max_retries

\* how generate(workflow, instance, status_callback) ends for its caller: a
\* result with a prompt id, a result with an 'error' field, a result
\* without prompt id, InstanceInterruptedError, any other exception
GenerateOutcomes == {"prompt_id", "error_field", "no_prompt_id", "interrupted", "failed"}

\* how listen_for_updates ends for its caller: it returns,
\* InstanceInterruptedError, any other exception
ListenOutcomes == {"returned", "interrupted", "failed"}

\* result = await self.comfy_client.generate(current_workflow, inst, ...)
CallGenerate(inst) ==
    /\ gen_args' = Append(gen_args, inst)
    /\ rpc' = "generating"

\* except InstanceInterruptedError: give up, or tell the user and go on
OnInterrupted ==
    /\ ninterrupted' = ninterrupted + 1
    /\ rpc' = IF RetriesExhausted(attempt) THEN "reporting" ELSE "notifying"
    /\ UNCHANGED <<attempt, has_image, current_instance, gen_args, uploads, outcome, bjobs>>

\* the drain loop awaits the job: run_generation up to its generate() call
BotJobStart ==
    /\ rpc = "queued"
    /\ CallGenerate(current_instance)
    /\ UNCHANGED <<attempt, has_image, current_instance, uploads, ninterrupted,
                   outcome, bjobs>>
    /\ UNCHANGED <<instVars, clientVars, now, taskVars, queueVars, listenVars,
                   poolVars, hookVars, nframes, mediaVars>>

\* generate() ended with r
BotGenerateDone(r) ==
    /\ rpc = "generating"
    /\ CASE r = "prompt_id" ->
               /\ rpc' = "listening"
               /\ UNCHANGED <<attempt, has_image, current_instance, gen_args, uploads,
                              ninterrupted, outcome, bjobs>>
         [] r = "interrupted" -> OnInterrupted
         [] OTHER ->
               \* raise Exception(result['error']), raise Exception("No prompt
               \* ID received from ComfyUI"), or the exception of generate():
               \* the outer except Exception edits the message
               /\ rpc' = "reporting"
               /\ UNCHANGED <<attempt, has_image, current_instance, gen_args, uploads,
                              ninterrupted, outcome, bjobs>>
    /\ UNCHANGED <<instVars, clientVars, now, taskVars, queueVars, listenVars,
                   poolVars, hookVars, nframes, mediaVars>>

\* listen_for_updates(prompt_id, update_message) ended with r
BotListenDone(r) ==
    /\ rpc = "listening"
    /\ CASE r = "returned" ->
               \* break; run_generation returns
               /\ rpc' = "finished"
               /\ outcome' = "done"
               /\ UNCHANGED <<attempt, has_image, current_instance, gen_args, uploads,
                              ninterrupted, bjobs>>
         [] r = "interrupted" -> OnInterrupted
         [] OTHER ->
               /\ rpc' = "reporting"
               /\ UNCHANGED <<attempt, has_image, current_instance, gen_args, uploads,
                              ninterrupted, outcome, bjobs>>
    /\ UNCHANGED <<instVars, clientVars, now, taskVars, queueVars, listenVars,
                   poolVars, hookVars, nframes, mediaVars>>

\* await status_update(...) returned (ok) or raised: current_instance =
\* None, then the re-upload of the input image or the next loop iteration
BotStatusUpdateDone(ok) ==
    /\ rpc = "notifying"
    /\ IF ~ok THEN
           /\ rpc' = "reporting"
           /\ UNCHANGED <<attempt, current_instance, gen_args>>
       ELSE IF has_image THEN
           /\ rpc' = "reuploading"
           /\ current_instance' = NoInst
           /\ UNCHANGED <<attempt, gen_args>>
       ELSE
           /\ current_instance' = NoInst
           /\ attempt' = attempt + 1
           /\ CallGenerate(NoInst)
    /\ UNCHANGED <<has_image, uploads, ninterrupted, outcome, bjobs>>
    /\ UNCHANGED <<instVars, clientVars, now, taskVars, queueVars, listenVars,
                   poolVars, hookVars, nframes, mediaVars>>

\* upload_image(input_image_file) returned (image, i) or raised (~ok)
BotReuploadDone(ok, i) ==
    /\ rpc = "reuploading"
    /\ IF ok THEN
           /\ uploads' = Append(uploads, i)
           /\ current_instance' = i
           /\ attempt' = attempt + 1
           /\ CallGenerate(i)
       ELSE
           /\ rpc' = "reporting"
           /\ UNCHANGED <<uploads, current_instance, attempt, gen_args>>
    /\ UNCHANGED <<has_image, ninterrupted, outcome, bjobs>>
    /\ UNCHANGED <<instVars, clientVars, now, taskVars, queueVars, listenVars,
                   poolVars, hookVars, nframes, mediaVars>>

\* the outer except Exception: await message.edit(embed=
\* generation_error_embed(...)) returned (ok), or raised and its exception
\* leaves run_generation
BotReportDone(ok) ==
    /\ rpc = "reporting"
    /\ rpc' = "finished"
    /\ outcome' = IF ok THEN "error_shown" ELSE "edit_failed"
    /\ UNCHANGED <<attempt, has_image, current_instance, gen_args, uploads,
                   ninterrupted, bjobs>>
    /\ UNCHANGED <<instVars, clientVars, now, taskVars, queueVars, listenVars,
                   poolVars, hookVars, nframes, mediaVars>>

\* handle_generation queues a job: with an input image the first upload
\* gave the instance inst, without one instance = None
BotEnqueue(img, inst) ==
    /\ rpc \in {"none", "finished"}
    /\ bjobs < MaxBotJobs
    /\ bjobs' = bjobs + 1
    /\ img = (inst # NoInst)
    /\ has_image' = img
    /\ current_instance' = inst
    /\ rpc' = "queued"
    /\ attempt' = 0
    /\ gen_args' = <<>>
    /\ uploads' = <<>>
    /\ ninterrupted' = 0
    /\ outcome' = "none"
    /\ UNCHANGED <<instVars, clientVars, now, taskVars, queueVars, listenVars,
                   poolVars, hookVars, nframes, mediaVars>>

BotInit ==
    /\ Init
    /\ strategy = "LEAST_BUSY"
    /\ \A i \in Instances : connected[i]

BotNext ==
    \/ \E img \in BOOLEAN, inst \in Instances \cup {NoInst} : BotEnqueue(img, inst)
    \/ BotJobStart
    \/ \E r \in GenerateOutcomes : BotGenerateDone(r)
    \/ \E r \in ListenOutcomes : BotListenDone(r)
    \/ \E ok \in BOOLEAN : BotStatusUpdateDone(ok)
    \/ \E ok \in BOOLEAN, i \in Instances : BotReuploadDone(ok, i)
    \/ \E ok \in BOOLEAN : BotReportDone(ok)

BotSpec == BotInit /\ [][BotNext]_vars

\* ----- GenerationQueue ---------------------------------------------------
\* Jobs are numbered in the order of their add_to_queue calls; the drain
\* task created by the enqueue of job j is task j.
Jobs == 1..MaxJobs

\* the test of add_to_queue inverted
ShouldStartDrainInverted == processing

\* add_to_queue: if not self.processing
ShouldStartDrain == ~processing

\* process_queue without its guard
AlreadyProcessingUnchecked == FALSE

\* process_queue: if self.processing: return
AlreadyProcessing == processing

\* the job closure's exception left to propagate
ExceptionEscapes == FALSE

\* process_queue: except Exception as e: logger.error(...)
ExceptionCaught == TRUE

\* the most recently added entry taken instead
QueueGetLast(q) == q[Len(q)]

\* await self.queue.get() on a non-empty asyncio.Queue: the oldest entry
QueueGet(q) == Head(q)

\* the while loop of process_queue from its test up to the next job's await
DrainLoop(d) ==
    IF queue = <<>> THEN
        \* finally: self.processing = False
        /\ processing' = FALSE
        /\ dpc' = [dpc EXCEPT ![d] = "done"]
        /\ current_task' = 0
        /\ UNCHANGED <<queue, djob, started>>
    ELSE
        /\ processing' = TRUE
        /\ queue' = Tail(queue)
        /\ current_task' = d
        /\ djob' = [djob EXCEPT ![d] = QueueGet(queue)]
        /\ started' = Append(started, QueueGet(queue))
        /\ dpc' = [dpc EXCEPT ![d] = "job"]

\* await queue.add_to_queue(generation_func)
AddToQueue ==
    /\ nextJob <= MaxJobs
    /\ queue' = Append(queue, nextJob)
    /\ dpc' = IF ShouldStartDrain THEN [dpc EXCEPT ![nextJob] = "scheduled"] ELSE dpc
    /\ nextJob' = nextJob + 1
    /\ UNCHANGED <<processing, current_task, djob, started, finished, failed>>
    /\ UNCHANGED <<instVars, clientVars, now, taskVars, listenVars, poolVars, hookVars, nframes, botVars, mediaVars>>

\* a created process_queue task gets to run
ProcessQueueStart(d) ==
    /\ dpc[d] = "scheduled"
    /\ IF AlreadyProcessing THEN
           /\ dpc' = [dpc EXCEPT ![d] = "done"]
           /\ UNCHANGED <<queue, processing, current_task, djob, started>>
       ELSE DrainLoop(d)
    /\ UNCHANGED <<nextJob, finished, failed>>
    /\ UNCHANGED <<instVars, clientVars, now, taskVars, listenVars, poolVars, hookVars, nframes, botVars, mediaVars>>

\* the job closure awaited by drain task d returned (ok) or raised (~ok):
\* except / finally, then the loop goes on
JobDone(d, ok) ==
    /\ dpc[d] = "job"
    /\ finished' = finished \cup {djob[d]}
    /\ failed' = IF ok THEN failed ELSE failed \cup {djob[d]}
    /\ IF ok \/ ExceptionCaught THEN DrainLoop(d)
       ELSE \* the exception leaves process_queue through both finally blocks
            /\ processing' = FALSE
            /\ current_task' = 0
            /\ dpc' = [dpc EXCEPT ![d] = "raised"]
            /\ UNCHANGED <<queue, djob, started>>
    /\ UNCHANGED nextJob
    /\ UNCHANGED <<instVars, clientVars, now, taskVars, listenVars, poolVars, hookVars, nframes, botVars, mediaVars>>

QueueInit ==
    /\ Init
    /\ strategy = "ROUND_ROBIN"
    /\ \A i \in Instances : connected[i]

QueueNext ==
    \/ AddToQueue
    \/ \E d \in Jobs : ProcessQueueStart(d)
    \/ \E d \in Jobs, ok \in BOOLEAN : JobDone(d, ok)

QueueSpec == QueueInit /\ [][QueueNext]_vars

\* the event loop runs every ready task, and every job closure terminates
QueueFairSpec ==
    /\ QueueSpec
    /\ \A d \in Jobs : WF_vars(ProcessQueueStart(d))
    /\ \A d \in Jobs : WF_vars(\E ok \in BOOLEAN : JobDone(d, ok))

\* ----- the client with its tasks -----------------------------------------
Next ==
    \/ Tick
    \/ \E t \in Tasks : GenerateStart(t)
    \/ \E t \in Tasks : GenerateLocked(t)
    \/ \E t \in Tasks, resp \in CoreResponses : GeneratePostDone(t, resp)
    \/ \E t \in Tasks, ok \in BOOLEAN : InitProbeDone(t, ok)
    \/ \E t \in Tasks, ok \in BOOLEAN : InitWsDone(t, ok)
    \/ \E t \in Tasks : InitRaise(t)
    \/ \E t \in Tasks, p \in PromptIds : ListenStart(t, p)
    \/ \E t \in Tasks, m \in ListenEvents : ListenRecv(t, m)
    \/ \E t \in Tasks, r \in {"ok", "status", "transport"} : ListenDownloadDone(t, r)
    \/ \E t \in Tasks, ok \in BOOLEAN : ListenCallbackDone(t, ok)
    \/ \E p \in Procs : CleanupLocked(p)
    \/ \E p \in Procs, ok \in BOOLEAN : CleanupWsClosed(p, ok)
    \/ \E p \in Procs, ok \in BOOLEAN : CleanupSessClosed(p, ok)
    \/ SweepWake
    \/ SweepHookDone

Spec == Init /\ [][Next]_vars

\* ----- one caller of generate(), every status code ------------------------
RetryInit ==
    /\ Init
    /\ \A i \in Instances : connected[i]

RetryNext ==
    \/ Tick
    \/ GenerateStart(1)
    \/ \E resp \in PostResponses : GeneratePostDone(1, resp)

RetrySpec == RetryInit /\ [][RetryNext]_vars

\* ----- one caller and the timeout checker, with the event loop's fairness --
SweepNext ==
    \/ Tick
    \/ GenerateStart(1)
    \/ GenerateLocked(1)
    \/ \E resp \in CoreResponses : GeneratePostDone(1, resp)
    \/ \E ok \in BOOLEAN : InitProbeDone(1, ok)
    \/ \E ok \in BOOLEAN : InitWsDone(1, ok)
    \/ InitRaise(1)
    \/ \E p \in PromptIds : ListenStart(1, p)
    \/ \E m \in ListenEvents : ListenRecv(1, m)
    \/ \E r \in {"ok", "status", "transport"} : ListenDownloadDone(1, r)
    \/ \E ok \in BOOLEAN : ListenCallbackDone(1, ok)
    \/ \E p \in {1, Sweep} : CleanupLocked(p)
    \/ \E p \in {1, Sweep}, ok \in BOOLEAN : CleanupWsClosed(p, ok)
    \/ \E p \in {1, Sweep}, ok \in BOOLEAN : CleanupSessClosed(p, ok)
    \/ SweepWake
    \/ SweepHookDone

\* asyncio.sleep returns, a task woken with the lock runs, and every awaited
\* request, close and hook completes (with whichever outcome); when the
\* caller makes its next call and when time passes is not constrained
SweepFairSpec ==
    /\ Init /\ [][SweepNext]_vars
    /\ WF_vars(SweepWake)
    /\ WF_vars(SweepHookDone)
    /\ WF_vars(GenerateLocked(1))
    /\ WF_vars(\E resp \in CoreResponses : GeneratePostDone(1, resp))
    /\ \A p \in {1, Sweep} : WF_vars(CleanupLocked(p))
    /\ \A p \in {1, Sweep} : WF_vars(\E ok \in BOOLEAN : CleanupWsClosed(p, ok))
    /\ \A p \in {1, Sweep} : WF_vars(\E ok \in BOOLEAN : CleanupSessClosed(p, ok))

\* ----- callers of generate() and upload_image(), and the timeout checker ---
LockInit ==
    /\ Init
    /\ strategy = "LEAST_BUSY"

LockNext ==
    \/ Tick
    \/ \E t \in Tasks : GenerateStart(t)
    \/ \E t \in Tasks : GenerateLocked(t)
    \/ \E t \in Tasks, resp \in CoreResponses : GeneratePostDone(t, resp)
    \/ \E t \in Tasks : UploadStart(t)
    \/ \E t \in Tasks : UploadLocked(t)
    \/ \E t \in Tasks, resp \in CoreResponses : UploadPostDone(t, resp)
    \/ \E t \in Tasks, ok \in BOOLEAN : InitProbeDone(t, ok)
    \/ \E t \in Tasks, ok \in BOOLEAN : InitWsDone(t, ok)
    \/ \E t \in Tasks : InitRaise(t)
    \/ \E p \in Procs : CleanupLocked(p)
    \/ \E p \in Procs, ok \in BOOLEAN : CleanupWsClosed(p, ok)
    \/ \E p \in Procs, ok \in BOOLEAN : CleanupSessClosed(p, ok)
    \/ SweepWake
    \/ SweepHookDone

LockSpec == LockInit /\ [][LockNext]_vars

\* ----- a caller of generate(), the timeout checker and close(); every
\* ws.close() and session.close() returns
CloseNext ==
    \/ Tick
    \/ GenerateStart(1)
    \/ GenerateLocked(1)
    \/ \E resp \in CoreResponses : GeneratePostDone(1, resp)
    \/ \E ok \in BOOLEAN : InitProbeDone(1, ok)
    \/ \E ok \in BOOLEAN : InitWsDone(1, ok)
    \/ InitRaise(1)
    \/ \E p \in Procs : CleanupLocked(p)
    \/ \E p \in Procs : CleanupWsClosed(p, TRUE)
    \/ \E p \in Procs : CleanupSessClosed(p, TRUE)
    \/ SweepWake
    \/ SweepHookDone
    \/ CloseStart(2)
    \/ CloseGather(2)
    \/ \E c \in Closers : CloserRun(c)
    \/ CloseReturn(2)

CloseSpec == LockInit /\ [][CloseNext]_vars

\* ----- a caller of generate() and upload_image(), the timeout checker and
\* close(): every operation that takes an instance's lock
\* the answers to a POST: a submitted prompt, or a transport error
MutexResponses == {Response(200, "json", 1), Response(0, "none", NoPrompt)}

\* the steps of the calling task after its call has started
CallerStep ==
    \/ GenerateLocked(1)
    \/ \E resp \in MutexResponses : GeneratePostDone(1, resp)
    \/ UploadLocked(1)
    \/ \E resp \in MutexResponses : UploadPostDone(1, resp)
    \/ \E ok \in BOOLEAN : InitProbeDone(1, ok)
    \/ \E ok \in BOOLEAN : InitWsDone(1, ok)
    \/ InitRaise(1)

\* the steps of process p inside cleanup()
CleanupStep(p) ==
    \/ CleanupLocked(p)
    \/ \E ok \in BOOLEAN : CleanupWsClosed(p, ok)
    \/ \E ok \in BOOLEAN : CleanupSessClosed(p, ok)

\* the steps of close() after its call has started, and of the cleanup()
\* tasks it gathers
CloseStep ==
    \/ CloseGather(2)
    \/ \E c \in Closers : CloserRun(c)
    \/ CloseReturn(2)

\* connect() has connected every configured instance
MutexInit ==
    /\ LockInit
    /\ \A i \in Instances : connected[i]

MutexNext ==
    \/ Tick
    \/ GenerateStart(1)
    \/ UploadStart(1)
    \/ CallerStep
    \/ \E p \in Procs : CleanupStep(p)
    \/ SweepWake
    \/ SweepHookDone
    \/ CloseStart(2)
    \/ CloseStep

\* a task that can run runs, and every awaited HTTP request, stream
\* operation and hook returns (with whichever outcome); when the callers
\* make their calls, when the checker's sleep ends and when time passes is
\* not constrained
MutexFairSpec ==
    /\ MutexInit /\ [][MutexNext]_vars
    /\ WF_vars(CallerStep)
    /\ \A p \in Procs : WF_vars(CleanupStep(p))
    /\ WF_vars(SweepHookDone)
    /\ WF_vars(CloseStep)

\* ======================= properties ======================================
ListenPcs == {"ls_recv", "ls_dl", "ls_cb", "ls_cb_done", "ls_cb_err",
              "ls_cb_raw", "ls_cb_exc", "ls_cb_closed"}

\* generate() calls of task t that are past the increment and before the
\* decrement of instance i
Submitting(i) == {t \in Tasks : pc[t] = "gen_post" /\ tinst[t] = i}

GenerateFinished(t) == pc[t] = "idle" /\ last[t].op = "generate"

\* C1: active_generations of an instance counts exactly the generate() calls
\* between their increment and their decrement, so it is 0 whenever no call
\* is in flight, also when every call failed.
C1_ActiveGenerationsBalanced ==
    /\ \A i \in Instances : active_generations[i] = Cardinality(Submitting(i))
    /\ (\A t \in Tasks : pc[t] = "idle") => \A i \in Instances : active_generations[i] = 0

\* every task has finished a generate() call and each of them failed
C1_Witness ==
    /\ \A t \in Tasks : GenerateFinished(t) /\ last[t].err \in {"request_failed", "transport"}
    /\ TotalCalls >= 2
    /\ \A i \in Instances : active_generations[i] = 0

Untracked(p, i, m, ap) == m[p] = NoInst /\ (i # NoInst => p \notin ap[i])

\* C2: in the step in which listen_for_updates returns or raises, by its
\* finally block or by the failed precondition, the prompt id is absent from
\* the map and from the owning instance's active_prompts.
C2_ListenLeavesNoTracking ==
    [][\A t \in Tasks :
        /\ (pc[t] \in ListenPcs /\ pc'[t] = "idle")
              => Untracked(tprompt[t], tinst[t], prompt_to_instance', active_prompts')
        /\ (pc[t] = "idle" /\ pc'[t] = "idle" /\ calls'[t] # calls[t]
                /\ last'[t].op = "listen")
              => \A p \in PromptIds :
                     (prompt_to_instance[p] # NoInst /\ ~connected[prompt_to_instance[p]])
                         => Untracked(p, prompt_to_instance[p], prompt_to_instance',
                                      active_prompts')
      ]_vars

\* C3: every key of prompt_to_instance is in the active_prompts of the
\* instance it maps to, in every state another task can observe.
C3_MapWithinActivePrompts ==
    \A p \in PromptIds :
        prompt_to_instance[p] # NoInst => p \in active_prompts[prompt_to_instance[p]]

\* a listener is suspended in its terminal callback, its prompt already
\* removed, while another prompt is still tracked
C3_Witness ==
    \E t \in Tasks :
        /\ pc[t] \in {"ls_cb_done", "ls_cb_err"}
        /\ prompt_to_instance[tprompt[t]] = NoInst
        /\ \E p \in PromptIds : prompt_to_instance[p] # NoInst

\* the step in which _select_instance returns tinst'[t] to generate()
SelectStep(t) ==
    /\ pc[t] \in {"idle", "init_ws"}
    /\ pc'[t] \in {"gen_post", "gen_lock"}

\* C4 as stated: the selected instance is connected and not timed out, on
\* the normal and on the reconnect path.
C4_SelectedConnectedNotTimedOut ==
    [][\A t \in Tasks :
        SelectStep(t) => connected'[tinst'[t]] /\ ~is_timed_out(tinst'[t])]_vars

\* C4 amended: the selected instance is connected; on the normal path it is
\* also not timed out.
C4_SelectedConnected ==
    [][\A t \in Tasks :
        SelectStep(t) =>
            /\ connected'[tinst'[t]]
            /\ path'[t] = "normal" => ~is_timed_out(tinst'[t])]_vars

\* a generate() holds an instance it got on the reconnect path
C4_Witness ==
    \E t \in Tasks :
        /\ pc[t] = "gen_post"
        /\ path[t] = "reconnect"
        /\ connected[tinst[t]]

RunningJobs == {d \in Jobs : dpc[d] = "job"}

\* C5: at most one job closure is executing, and a process_queue task that
\* finds processing set returns without taking a job.
C5_SingleDrainLoop ==
    /\ [](Cardinality(RunningJobs) <= 1)
    /\ [](\A d \in RunningJobs : processing /\ current_task = d)
    /\ [][\A d \in Jobs :
            (dpc[d] = "scheduled" /\ processing /\ dpc'[d] # "scheduled")
                => (dpc'[d] = "done" /\ queue' = queue /\ started' = started)]_vars

\* a later drain task found the earlier one running a job and returned
C5_Witness ==
    \E d1, d2 \in Jobs :
        /\ d1 < d2
        /\ dpc[d1] = "job"
        /\ dpc[d2] = "done"
        /\ djob[d2] = 0

\* C6: the queue is never non-empty with no drain loop running or
\* scheduled, and every enqueued job is eventually started.
C6_EveryJobStarts ==
    /\ [](queue # <<>> => \E d \in Jobs : dpc[d] \in {"scheduled", "job"})
    /\ \A j \in Jobs : (j \in Range(queue)) ~> (j \in Range(started))

\* a job enqueued while the drain loop was running (no task was created for
\* it) has been started
C6_Witness ==
    \E j \in Jobs :
        /\ j < nextJob
        /\ dpc[j] = "none"
        /\ j \in Range(started)

\* the transient responses of the retry policy
Transient(status, body) ==
    \/ status \in {502, 503, 504}
    \/ status = 404 /\ body = "empty"

\* C7: a generate() call that received a transient response made a further
\* attempt: no call ends on a transient response after a single attempt.
C7_TransientIsRetried ==
    \A t \in Tasks :
        (GenerateFinished(t) /\ last[t].err = "request_failed"
              /\ Transient(last[t].status, last[t].body))
            => last[t].attempts > 1

\* C8: an application error ends generate() after exactly one attempt with
\* an error that carries the status code and the body text.
C8_ApplicationErrorNotRetried ==
    \A t \in Tasks :
        (GenerateFinished(t) /\ last[t].err = "request_failed"
              /\ ~Transient(last[t].status, last[t].body))
            => /\ last[t].attempts = 1
               /\ ~last[t].ok
               /\ last[t].status \notin {0, 200}
               /\ last[t].body \in {"empty", "text"}

\* generate() failed on a 400 answered with a body
C8_Witness ==
    /\ GenerateFinished(1)
    /\ last[1].err = "request_failed"
    /\ last[1].status = 400
    /\ last[1].body = "text"
    /\ last[1].attempts = 1

\* C9: a generate() call that fails on transient responses has made exactly
\* 4 attempts.
C9_FourAttempts ==
    \A t \in Tasks :
        (GenerateFinished(t) /\ last[t].err = "request_failed"
              /\ Transient(last[t].status, last[t].body))
            => last[t].attempts = 4

\* a step of the sweep's cleanup() past the lock, on instance i
SweepTearsDown(i) ==
    /\ tinst[Sweep] = i
    /\ pc[Sweep] \in {"cl_locked", "cl_ws", "cl_sess"}
    /\ pc'[Sweep] # pc[Sweep]

\* C10: the sweep never closes the connections of, or marks disconnected,
\* an instance whose active_prompts is non-empty.
C10_SweepSparesActiveInstances ==
    [][\A i \in Instances : SweepTearsDown(i) => active_prompts[i] = {}]_vars

\* C11: an instance that is connected, timed out and without active prompts
\* eventually has cleanup() called on it by the sweep, which then emits the
\* timeout hook for it, unless the instance is used again first; whatever
\* the load balancer selected before.  (That a cleanup() which returned has
\* disconnected the instance is C20.)
C11_TimedOutInstanceSwept ==
    \A i \in Instances :
        (i \in SweepCondition) ~>
            \/ pc[Sweep] = "sw_hook" /\ tinst[Sweep] = i
            \/ ~is_timed_out(i)
            \/ active_prompts[i] # {}

\* the listener of task t got an 'error' event for its prompt and is
\* suspended in a callback it makes for it
InErrorCallback(t) == pc[t] \in {"ls_cb_err", "ls_cb_raw"}

\* C12: after an 'error' event every callback invocation carries the generic
\* error status, never the engine's error text, and the call ends by raising.
C12_ErrorCallbackIsGeneric ==
    /\ [](\A t \in Tasks :
            InErrorCallback(t) => CallbackStatus(pc[t]) = "generic_error")
    /\ [][\A t \in Tasks :
            (InErrorCallback(t) /\ pc'[t] = "idle") => ~last'[t].ok]_vars

\* C13: when the stream closes under a listener, the callback is told and
\* the call fails with InstanceInterruptedError (or with the callback's own
\* exception, had the callback raised), a kind no other failure has.
C13_ClosedRaisesInstanceInterrupted ==
    [][\A t \in Tasks :
        (pc[t] = "ls_cb_closed" /\ pc'[t] = "idle") =>
            /\ CallbackStatus(pc[t]) = "connection_closed"
            /\ last'[t].err \in {"InstanceInterruptedError", "Exception"}]_vars

\* the labels at which a listener is suspended in a terminal callback
TerminalCallbackPcs == {"ls_cb_done", "ls_cb_err"}

\* C14: in the step that takes a listener to its terminal callback (the
\* 'complete' status or the error status) the prompt id is already out of the
\* instance's active_prompts and of the map, and no later step of that call
\* puts it back.
C14_TerminalCallbackAfterUntrack ==
    [][\A t \in Tasks :
        /\ (pc[t] = "ls_recv" /\ pc'[t] \in TerminalCallbackPcs)
              => Untracked(tprompt[t], tinst[t], prompt_to_instance', active_prompts')
        /\ (pc[t] \in ListenPcs /\ pc'[t] # pc[t])
              => /\ prompt_to_instance[tprompt[t]] = NoInst
                    => prompt_to_instance'[tprompt[t]] = NoInst
                 /\ tprompt[t] \notin active_prompts[tinst[t]]
                    => tprompt[t] \notin active_prompts'[tinst[t]]
      ]_vars

\* a listener is suspended in the error callback with its prompt untracked
\* on an instance that is still connected
C14_Witness ==
    \E t \in Tasks :
        /\ pc[t] = "ls_cb_err"
        /\ connected[tinst[t]]
        /\ Untracked(tprompt[t], tinst[t], prompt_to_instance, active_prompts)

\* the step in which generate() of task t ends in instance selection, before
\* any request: _select_instance raised
SelectionFails(t) ==
    /\ \/ pc[t] = "init_raise"
       \/ pc[t] = "idle" /\ calls'[t] # calls[t]
    /\ pc'[t] = "idle"
    /\ last'[t].op = "generate"
    /\ last'[t].attempts = 0

\* C15: a selection that ends with no instance connected after its reconnect
\* attempts fails with 'No available instances'; the connection error of an
\* instance's initialize() is not what the caller gets.
C15_SelectionFailsWithNoAvailable ==
    [][\A t \in Tasks :
        (SelectionFails(t) /\ \A i \in Instances : ~connected'[i])
            => last'[t].err = "no_available"]_vars

\* the step in which cleanup() of instance i, called by process p, returns
CleanupReturns(p, i) ==
    /\ pc[p] \in {"cl_locked", "cl_ws", "cl_sess"}
    /\ tinst[p] = i
    /\ pc'[p] = ret[p]

\* C20: when cleanup() returns, also after a failure to close the stream or
\* the session, the instance is disconnected and has neither stream nor
\* session; cleanup() itself never raises.
C20_CleanupLeavesDisconnected ==
    [][\A p \in Procs, i \in Instances :
        CleanupReturns(p, i) => ~connected'[i] /\ ~ws'[i] /\ ~session'[i]]_vars

\* C16: a job closure that raises does not stop the queue: no process_queue
\* task ends with the exception, every job still queued is executed
\* afterwards, and processing is false once the queue has been drained.
C16_FailedJobDoesNotStopQueue ==
    /\ [](\A d \in Jobs : dpc[d] # "raised")
    /\ \A j, k \in Jobs : (j \in failed /\ k \in Range(queue)) ~> (k \in finished)
    /\ []((failed # {} /\ queue = <<>> /\ RunningJobs = {}) => ~processing)

\* a job raised, a job enqueued behind it ran to its end, the queue is
\* drained and processing is false
C16_Witness ==
    \E j, k \in Jobs :
        /\ j < k
        /\ j \in failed
        /\ k \in finished \ failed
        /\ queue = <<>>
        /\ RunningJobs = {}
        /\ ~processing

\* C17: jobs are started in the order of their add_to_queue calls.
C17_StartedInEnqueueOrder ==
    \A k \in 1..Len(started) : started[k] = k

\* three jobs were started, the second and third enqueued while the drain
\* loop was running
C17_Witness ==
    /\ Len(started) = 3
    /\ dpc[2] = "none"
    /\ dpc[3] = "none"

\* a sequence of milestones in strictly increasing order
Increasing(ms) ==
    /\ \A k \in 1..Len(ms) : \E j \in 1..Len(Milestones) : ms[k] = Milestones[j]
    /\ \A k \in 1..(Len(ms) - 1) : ms[k] < ms[k + 1]

\* C18: between two resets of a node's tracker the callback is invoked at
\* most once per milestone, in increasing order, the recorded milestone being
\* the last one called back; the percents 25, 26, 50, 51, 100 of one node
\* make exactly 4 callbacks.
C18_OncePerMilestone ==
    \A n \in Nodes :
        /\ Increasing(milestone_cbs[n])
        /\ milestone_cbs[n] # <<>> =>
               LastMilestone(node_progress, n) = milestone_cbs[n][Len(milestone_cbs[n])]
        /\ (script[n] = Len(Script) /\ lstate # "failed") => Len(milestone_cbs[n]) = 4

\* a node has reported 25, 26, 50, 51, 100 and the four milestones were
\* called back
C18_Witness ==
    \E n \in Nodes :
        /\ script[n] = Len(Script)
        /\ lstate = "listening"
        /\ milestone_cbs[n] = Milestones

\* C19: a call that got 5 node starts, any progress messages and the
\* completion has made exactly 2 callbacks when node updates are disabled,
\* and more than 2 when they are enabled.
C19_NodeUpdatesSuppressed ==
    (lstate = "done" /\ nstarts = 5) =>
        IF show_node_updates THEN ncallbacks > 2 ELSE ncallbacks = 2

\* the step in which the cleanup() of initialize()'s except branch returns
\* for task t on instance i: initialize() raises its connection error
InitializeFails(t, i) ==
    /\ pc[t] \in {"init_probe", "init_ws", "cl_locked", "cl_ws", "cl_sess"}
    /\ tinst[t] = i
    /\ pc'[t] = "init_raise"

\* C21: when initialize() fails at the health probe or while opening the
\* event stream, it raises with the instance disconnected and without an
\* HTTP session or event stream.
C21_FailedInitializeReleasesAll ==
    [][\A t \in Tasks, i \in Instances :
        InitializeFails(t, i) => ~connected'[i] /\ ~ws'[i] /\ ~session'[i]]_vars

\* C22: round robin over a pool of n connected instances whose membership
\* does not change returns on the k-th call (from 0) the instance at index
\* k mod n of the connected list, and the cursor counts the calls.
C22_RoundRobinCycles ==
    (strategy = "ROUND_ROBIN" /\ ConnectedPool # <<>>) =>
        /\ current_instance_index = Len(picks)
        /\ \A k \in 1..Len(picks) :
               picks[k] = ConnectedPool[((k - 1) % Len(ConnectedPool)) + 1]

\* three calls on two connected instances returned the first, the second
\* and the first again
C22_Witness ==
    /\ strategy = "ROUND_ROBIN"
    /\ Len(ConnectedPool) = 2
    /\ picks = <<ConnectedPool[1], ConnectedPool[2], ConnectedPool[1]>>

\* C23: least busy returns a connected instance whose active_generations /
\* weight is minimal among the connected instances.
C23_LeastBusyIsMinimal ==
    (strategy = "LEAST_BUSY" /\ ConnectedPool # <<>>) =>
        \A k \in 1..Len(picks) :
            /\ picks[k] \in Pool
            /\ pool_connected[picks[k]]
            /\ \A j \in Pool :
                   pool_connected[j] =>
                       pool_active[picks[k]] * pool_weight[j]
                           <= pool_active[j] * pool_weight[picks[k]]

\* for the ratios 2/1, 1/1, 3/1 the second instance was returned
C23_Witness ==
    /\ strategy = "LEAST_BUSY"
    /\ pool_connected = [i \in Pool |-> TRUE]
    /\ pool_weight = [i \in Pool |-> 1]
    /\ pool_active = <<2, 1, 3>>
    /\ picks = <<2>>

\* execute_hook returns
HookReturns == hpc # "h_returned" /\ hpc' = "h_returned"

\* C24: when execute_hook returns, it has invoked every callback registered
\* for the name, once per registration and in registration order, one at a
\* time, and the list it returns holds their results in that order.
C24_HookCallbacksInOrder ==
    [][/\ HookReturns =>
           /\ hlog' = hooks'[hname']
           /\ hresults' = [k \in 1..Len(hlog') |-> CallbackResult(hlog'[k])]
       /\ hpc' = "h_cb" => Len(hlog') = Len(hresults') + 1]_vars

\* a call returned the results of three registrations, one callback twice
C24_Witness ==
    /\ hpc = "h_returned"
    /\ Len(hresults) = 3
    /\ \E j, k \in 1..3 : hresults[j] # hresults[k]
    /\ hlog = hooks[hname]

\* C25: when a callback raises, execute_hook ends with that exception, no
\* later callback of the list is invoked, and the hook lists are unchanged.
C25_HookErrorPropagates ==
    [][/\ (hpc = "h_cb" /\ hlog[Len(hlog)] \in hraises /\ hpc' # hpc) =>
           /\ hpc' = "h_raised"
           /\ hlog' = hlog
           /\ hooks' = hooks
       /\ (hpc = "h_raised" /\ hpc' = "h_raised") => hlog' = hlog]_vars

\* the first of two registered callbacks raised
C25_Witness ==
    /\ hpc = "h_raised"
    /\ Len(hlog) = 1
    /\ Len(hooks[hname]) >= 2
    /\ hooks[hname][1] = hlog[1]

\* _get_instance() returns to generate(): the step that ends the selection
GetInstanceReturns(t) ==
    /\ pc[t] \in {"idle", "init_ws"}
    /\ pc'[t] \in {"gen_post", "gen_lock"}

\* C26: the step in which instance selection returns an instance sets that
\* instance's last_used to the current time, so it is not timed out at the
\* return, and changes no other instance's last_used.
C26_ReturnedInstanceMarkedUsed ==
    [][\A t \in Tasks :
          GetInstanceReturns(t) =>
              /\ tinst'[t] \in Instances
              /\ last_used'[tinst'[t]] = now'
              /\ ~(timeout[tinst'[t]] > 0 /\ now' - last_used'[tinst'[t]] > timeout[tinst'[t]])
              /\ \A j \in Instances \ {tinst'[t]} : last_used'[j] = last_used[j]]_vars

\* an instance selected after time has passed carries the current time, the
\* other instance the time of construction
C26_Witness ==
    \E t \in Tasks :
        /\ pc[t] = "gen_post"
        /\ now > 0
        /\ last_used[tinst[t]] = now
        /\ \A j \in Instances \ {tinst[t]} : last_used[j] = 0

\* upload_image() ends, with its result or with an exception, after the
\* request was made on instance i
UploadExits(t, i) == pc[t] = "upl_post" /\ tinst[t] = i /\ pc'[t] # "upl_post"

\* C27: on every exit of upload_image after its request (success, non-200
\* status, transport error) the instance uploaded to is marked used and
\* the caller no longer holds that instance's lock.
C27_UploadMarksUsedAndReleases ==
    [][\A t \in Tasks, i \in Instances :
          UploadExits(t, i) =>
              /\ last_used'[i] = now'
              /\ lockHolder'[i] # t
              /\ \A k \in 1..Len(lockWaiters'[i]) : lockWaiters'[i][k] # t]_vars

\* an upload failed with a transport error some time after the selection,
\* and the instance carries the time of the failure
C27_Witness ==
    \E t \in Tasks, i \in Instances :
        /\ pc[t] = "idle"
        /\ last[t].op = "upload_image"
        /\ last[t].err = "transport"
        /\ now = MaxTime
        /\ last_used[i] = now
        /\ lockHolder[i] = NoProc

\* the processes inside a section that instance i's lock protects
InLockSection(i) ==
    {p \in Procs : tinst[p] = i /\ pc[p] \in {"gen_locked", "gen_post", "upl_locked",
                                             "upl_post", "cl_locked", "cl_ws",
                                             "cl_sess"}}

\* C30: for each instance at most one of the locked sections of generate(),
\* upload_image() and cleanup() is in progress, and it is the lock holder's;
\* in particular no cleanup() is closing the stream or the session while a
\* submit or an upload on that instance is in flight.
C30_LockSectionsExclusive ==
    \A i \in Instances :
        /\ Cardinality(InLockSection(i)) <= 1
        /\ \A p \in InLockSection(i) : lockHolder[i] = p

\* an upload is in flight on an instance while a generate() and the timeout
\* checker's cleanup() wait for the same lock
C30_Witness ==
    \E i \in Instances, t \in Tasks :
        /\ pc[t] = "upl_post" /\ tinst[t] = i
        /\ pc[Sweep] = "cl_lock" /\ tinst[Sweep] = i
        /\ \E u \in Tasks : pc[u] = "gen_lock" /\ tinst[u] = i

\* C28: a binary frame received by listen_for_updates neither ends the
\* listen loop nor invokes the callback.
C28_BinaryFrameKeepsListening ==
    [][nframes' # nframes => (lstate' = lstate /\ ncallbacks' = ncallbacks)]_vars

\* task t calls _select_instance and finds no instance connected and not
\* timed out: the reconnect loop starts
ReconnectLoopEntered(t) ==
    /\ pc[t] = "idle"
    /\ calls'[t] # calls[t]
    /\ AvailableInstances = <<>>

\* C29: when the reconnect loop starts, every configured instance that is
\* disconnected and has no active prompt is in the list the loop iterates,
\* and an attempt that starts in that step is on such an instance.
C29_ReconnectCoversConfiguredPool ==
    [][\A t \in Tasks :
          ReconnectLoopEntered(t) =>
              /\ NeedsReconnect(connected) \subseteq Range(instances)
              /\ pc'[t] = "init_probe" => tinst'[t] \in NeedsReconnect(connected)]_vars

\* a generate() call of task t ends in this step, by return or by exception
GenerateCallEnds(t) ==
    /\ last'[t].op = "generate"
    /\ pc'[t] = "idle"
    /\ pc[t] # "idle" \/ calls'[t] # calls[t]

\* C31: a generate() that succeeds adds one to the submitting instance's
\* total_generations and, when the response carries a prompt id, puts the
\* id in that instance's active prompts and maps it to that instance; a
\* generate() that fails leaves the map, the active prompts and
\* total_generations as they were; total_generations never decreases.
C31_GenerateTracksOnSuccessOnly ==
    [][/\ \A t \in Tasks :
             GenerateCallEnds(t) =>
                 IF last'[t].ok THEN
                     /\ tinst[t] \in Instances
                     /\ total_generations' =
                            [total_generations EXCEPT ![tinst[t]] = @ + 1]
                     /\ \/ /\ active_prompts' = active_prompts
                            /\ prompt_to_instance' = prompt_to_instance
                        \/ \E p \in PromptIds :
                               /\ active_prompts' =
                                      [active_prompts EXCEPT ![tinst[t]] = @ \cup {p}]
                               /\ prompt_to_instance' =
                                      [prompt_to_instance EXCEPT ![p] = tinst[t]]
                 ELSE
                     /\ total_generations' = total_generations
                     /\ active_prompts' = active_prompts
                     /\ prompt_to_instance' = prompt_to_instance
       /\ \A i \in Instances : total_generations'[i] >= total_generations[i]]_vars

\* one instance took two successful submits with different prompt ids, among
\* three calls of one task
C31_Witness ==
    \E i \in Instances :
        /\ total_generations[i] = 2
        /\ active_prompts[i] = PromptIds
        /\ \A p \in PromptIds : prompt_to_instance[p] = i
        /\ \E t \in Tasks : last[t].op = "generate" /\ last[t].ok /\ calls[t] = 3

\* generate() is called at most twice per job, a second call follows an
\* interruption and is pinned to the instance of the re-upload when there is
\* an input image and to no instance otherwise; a job that ends well after
\* one interruption has submitted twice, and two interruptions end the job
\* with the error report
ResubmittedOnce ==
    /\ Len(gen_args) <= 2
    /\ ninterrupted <= 2
    /\ Len(gen_args) = 2 =>
           /\ ninterrupted >= 1
           /\ IF has_image THEN Len(uploads) = 1 /\ gen_args[2] = uploads[1]
              ELSE uploads = <<>> /\ gen_args[2] = NoInst
    /\ rpc = "finished" =>
           /\ (outcome = "done" /\ ninterrupted = 1) => Len(gen_args) = 2
           /\ ninterrupted = 2 => outcome # "done"

CloseStartsCleanups(t) == pc[t] = "close_wait" /\ pc'[t] = "close_gather"

\* C33: close() leaves every instance configured at construction
\* disconnected and closed, whatever the selections before returned or
\* skipped: when it starts its cleanups the timeout checker has ended, and
\* every configured instance that is still connected or still has a stream
\* or a session is given a cleanup().
C33_CloseCleansConfiguredPool ==
    [][\A t \in Tasks :
          CloseStartsCleanups(t) =>
              /\ pc[Sweep] = "sw_cancelled"
              /\ \A i \in Instances :
                     (connected[i] \/ ws[i] \/ session[i]) =>
                         pc'[Closer(i)] = "cl_start"]_vars

\* C34: the 'executing' message with a null node makes one callback, the
\* 'complete' status with the media downloaded last (none when nothing was
\* downloaded); when that callback returns the call returns, and it reads
\* nothing from the stream afterwards.
C34_CompleteDeliversLastMedia ==
    [][/\ (lstate = "listening" /\ lstate' = "done") =>
           /\ ncallbacks' = ncallbacks + 1
           /\ complete_image' = current_image_data
           /\ current_image_data \in {NoMedia} \cup 1..ndownloads
       /\ lstate = "done" =>
           /\ lstate' = "done"
           /\ ncallbacks' = ncallbacks
           /\ ndownloads' = ndownloads /\ nforeign' = nforeign
           /\ nprogress' = nprogress /\ nstarts' = nstarts]_vars

\* the call returned after two downloads, with the second one's media
C34_Witness ==
    /\ lstate = "done"
    /\ ndownloads = 2
    /\ current_image_data = 2
    /\ complete_image = 2

\* C35: a message of another prompt makes no callback and leaves the
\* milestone state, the downloaded media, the completion status and both
\* tracking structures as they were; the call keeps listening.
C35_ForeignMessagesIgnored ==
    [][nforeign' # nforeign =>
          /\ ncallbacks' = ncallbacks
          /\ lstate' = lstate
          /\ UNCHANGED <<node_progress, milestone_cbs, current_image_data,
                         complete_image, active_prompts, prompt_to_instance>>]_vars

\* two messages of other prompts arrived after a milestone and a download,
\* and the call is still listening
C35_Witness ==
    /\ nforeign = 2
    /\ lstate = "listening"
    /\ node_progress[1] = 50
    /\ current_image_data = 1
    /\ ncallbacks = 3

\* C36: a media download that fails, by its status or by a transport
\* error, makes no callback and does not end the listen loop.
C36_FailedDownloadSkipped ==
    [][(ndownloads' # ndownloads /\ current_image_data' = current_image_data) =>
          (ncallbacks' = ncallbacks /\ lstate' = lstate)]_vars

\* get_instance() returns instance i to generate() or upload_image()
ReturnedByGetInstance(t, i) ==
    /\ pc[t] \in {"idle", "init_ws"}
    /\ pc'[t] \in {"gen_post", "gen_lock", "upl_post", "upl_lock"}
    /\ tinst'[t] = i

\* the listen_for_updates call that met the closed stream of i has not
\* ended yet: it is reporting to its callback
StreamFailurePending(i) ==
    \E u \in Tasks : pc[u] = "ls_cb_closed" /\ tinst[u] = i

\* C37: an instance whose event stream has closed under a listen_for_updates
\* call is not returned by get_instance until initialize() has connected it
\* again.
C37_ClosedStreamNotSelected ==
    [][\A t \in Tasks : \A i \in Instances :
          (ReturnedByGetInstance(t, i) /\ ~StreamFailurePending(i))
              => ~stream_closed'[i]]_vars

\* C38: in every state an instance with connected = TRUE has an event-stream
\* connection and an HTTP session.
C38_ConnectedHasStreamAndSession ==
    \A i \in Instances : connected[i] => (ws[i] /\ session[i])

\* C39: active_generations of every instance is 0 or 1; it is 1 only while a
\* generate() call holds the instance's lock between its increment and its
\* decrement, so an instance whose submitted prompts are being listened to,
\* with no submit in flight, has the counter at 0.
C39_CounterCountsSubmitsInFlight ==
    \A i \in Instances :
        /\ active_generations[i] \in {0, 1}
        /\ active_generations[i] = 1 =>
               \E t \in Tasks : lockHolder[i] = t /\ pc[t] = "gen_post" /\ tinst[t] = i
        /\ (active_prompts[i] # {} /\ lockHolder[i] = NoProc) =>
               active_generations[i] = 0

\* a prompt submitted on one instance is being listened to, with that
\* instance's counter at 0, while a submit is in flight on the other instance
C39_Witness ==
    \E t, u \in Tasks : \E i, j \in Instances :
        /\ i # j
        /\ pc[t] \in ListenPcs /\ tinst[t] = i
        /\ tprompt[t] \in active_prompts[i]
        /\ active_generations[i] = 0
        /\ pc[u] = "gen_post" /\ tinst[u] = j
        /\ active_generations[j] = 1

\* process p waits in acquire() for the lock of instance i
WaitsForLock(p, i) == \E k \in 1..Len(lockWaiters[i]) : lockWaiters[i][k] = p

\* the lock is never requested by the process that holds it
NoReentrantRequest ==
    \A i \in Instances : lockHolder[i] # NoProc => ~WaitsForLock(lockHolder[i], i)

\* C40 as stated: every process that waits for an instance's lock eventually
\* holds it, and no process requests a lock it holds.
C40_EveryWaiterAcquires ==
    /\ []NoReentrantRequest
    /\ \A p \in Procs : \A i \in Instances :
           WaitsForLock(p, i) ~> (lockHolder[i] = p)

\* C40 amended: every process that waits for an instance's lock eventually
\* holds it, unless it is the timeout checker and close() cancels it while it
\* waits; no process requests a lock it holds.
C40_WaiterAcquiresOrIsCancelled ==
    /\ []NoReentrantRequest
    /\ \A p \in Procs : \A i \in Instances :
           WaitsForLock(p, i) ~> (lockHolder[i] = p \/ pc[p] = "sw_cancelled")

\* a cleanup() of close() that waited for the lock has been woken with it,
\* and the next call of the task that held the lock waits behind it
C40_Witness ==
    \E c \in Closers :
        /\ pc[c] = "cl_locked"
        /\ lockHolder[tinst[c]] = c
        /\ WaitsForLock(1, tinst[c])

====
